---- MODULE Spec2Model ----
(***************************************************************************)
(* Campus Event Discovery Assistant: the caption parser, the dedup matcher *)
(* and the classifier, as state machines over the SQLite tables            *)
(* raw_events and events.                                                  *)
(*                                                                         *)
(* Text is a string, handled character by character the way Python's str   *)
(* methods and the re module handle it.  The module text is ASCII, so each *)
(* emoji the parser names is written as one reserved ASCII character (see  *)
(* the emoji section).  SQL NULL / Python None in a text column is the     *)
(* reserved value NULL.                                                    *)
(***************************************************************************)
EXTENDS Integers, Sequences, FiniteSets, TLC

VARIABLES
    schema,          \* the events table's columns and constraints
    raw_events,      \* the raw_events table, in rowid order
    raw_rows,        \* dedupe_raw_events: rows fetched from raw_events
    raw_idx,         \* dedupe_raw_events: position of the for loop in raw_rows
    events,          \* the events table, in rowid order (id = position)
    inserted_count,  \* dedupe_raw_events: summary counter
    updated_count,   \* dedupe_raw_events: summary counter
    matchers,        \* runs of dedupe_raw_events started side by side, each with its state
    dedupe_runs,     \* how many runs of dedupe_raw_events have finished
    exits,           \* exit codes: of the scripts that have ended, in order, and of
                     \* run_full_pipeline (<<code>>, <<>> while it has not exited)
    event_rows,      \* classify_events: rows fetched from events
    event_idx,       \* classify_events: position of the for loop in event_rows
    category_counts, \* classify_events: tally per category
    classify_runs,   \* how many runs of classify_events have finished
    posts,           \* the posts the fetchers return, in the order of the handles
    post_idx,        \* ingest_from_instagram: position of the for loops in posts
    parsed,          \* ingest_from_instagram: what parse_caption returned
    clock,           \* datetime.now() during the run
    raw_unique,      \* raw_events carries UNIQUE(title, datetime, source)
    total_inserted,  \* ingest_from_instagram: summary counter
    total_processed, \* ingest_from_instagram: summary counter
    pc               \* control state of the running script

dedupe_vars == <<raw_rows, raw_idx, inserted_count, updated_count, matchers, dedupe_runs>>

classify_vars == <<event_rows, event_idx, category_counts, classify_runs>>

ingest_vars == <<posts, post_idx, parsed, clock, raw_unique, total_inserted, total_processed>>

vars == <<schema, raw_events, events, ingest_vars, dedupe_vars, classify_vars, exits, pc>>

----------------------------------------------------------------------------
(* Bounds *)

MaxRows == 3

MaxPosts == 2

\* Runs of classify_events over one registry.
MaxRuns == 2

----------------------------------------------------------------------------
(* Text helpers: Python str.strip, str.split, str.join *)

NULL == "<NULL>"

\* The k-th character of s.
Ch(s, k) == SubSeq(s, k, k)

Whitespace == {" ", "\n", "\t"}

SetMin(S) == CHOOSE x \in S : \A y \in S : x <= y

SetMax(S) == CHOOSE x \in S : \A y \in S : x >= y

RECURSIVE lstrip(_)
lstrip(s) == IF s # "" /\ Head(s) \in Whitespace THEN lstrip(Tail(s)) ELSE s

RECURSIVE rstrip(_)
rstrip(s) ==
    IF s # "" /\ Ch(s, Len(s)) \in Whitespace THEN rstrip(SubSeq(s, 1, Len(s) - 1)) ELSE s

strip(s) == rstrip(lstrip(s))

UpperLetters == "ABCDEFGHIJKLMNOPQRSTUVWXYZ"

LowerLetters == "abcdefghijklmnopqrstuvwxyz"

Digits == "0123456789"

CharsOf(s) == {Ch(s, k) : k \in 1..Len(s)}

\* \d and \w of the re module, on ASCII text.
DigitChars == CharsOf(Digits)

WordChars == CharsOf(UpperLetters) \cup CharsOf(LowerLetters) \cup DigitChars \cup {"_"}

LowerMap ==
    [c \in CharsOf(UpperLetters) |->
        Ch(LowerLetters, CHOOSE k \in 1..26 : Ch(UpperLetters, k) = c)]

RECURSIVE LowerEach(_)
LowerEach(s) ==
    IF s = "" THEN ""
    ELSE (IF Head(s) \in DOMAIN LowerMap THEN LowerMap[Head(s)] ELSE Head(s)) \o LowerEach(Tail(s))

\* str.lower(), and the folding re.IGNORECASE applies: a text without an
\* upper-case letter is its own lower-case form.
lower(s) ==
    IF \A k \in 1..Len(s) : Ch(s, k) \notin DOMAIN LowerMap THEN s ELSE LowerEach(s)

\* str.find from position p, 1-based: the first position at or after p where
\* sep occurs in s, 0 when there is none.
RECURSIVE FindFrom(_, _, _)
FindFrom(s, sep, p) ==
    IF p + Len(sep) - 1 > Len(s) THEN 0
    ELSE IF SubSeq(s, p, p + Len(sep) - 1) = sep THEN p
    ELSE FindFrom(s, sep, p + 1)

RECURSIVE split(_, _)
split(s, sep) ==
    LET p == FindFrom(s, sep, 1)
    IN  IF p = 0 THEN <<s>>
        ELSE <<SubSeq(s, 1, p - 1)>> \o split(SubSeq(s, p + Len(sep), Len(s)), sep)

RECURSIVE join(_, _)
join(list, sep) ==
    IF list = <<>> THEN ""
    ELSE IF Len(list) = 1 THEN list[1]
    ELSE list[1] \o sep \o join(Tail(list), sep)

RECURSIVE StripNonEmpty(_)
StripNonEmpty(list) ==
    IF list = <<>> THEN <<>>
    ELSE LET h == strip(list[1])
         IN  (IF h # "" THEN <<h>> ELSE <<>>) \o StripNonEmpty(Tail(list))

Contains(list, x) == \E k \in 1..Len(list) : list[k] = x

----------------------------------------------------------------------------
(* datetime objects and their ISO 8601 text *)

\* A naive datetime.datetime value.
DateTime(y, mo, d, h, mi, s) ==
    [year |-> y, month |-> mo, day |-> d, hour |-> h, minute |-> mi, second |-> s]

\* Days of the year before the first of month m.
DaysBeforeMonth(y, m) ==
    <<0, 31, 59, 90, 120, 151, 181, 212, 243, 273, 304, 334>>[m]
      + (IF m > 2 /\ ((y % 4 = 0 /\ y % 100 # 0) \/ y % 400 = 0) THEN 1 ELSE 0)

\* date.toordinal(): days since 0001-01-01, proleptic Gregorian.
toordinal(dt) ==
    LET y == dt.year - 1
    IN  y * 365 + (y \div 4) - (y \div 100) + (y \div 400)
          + DaysBeforeMonth(dt.year, dt.month) + dt.day

\* (a - b).total_seconds()
total_seconds(a, b) ==
    (toordinal(a) - toordinal(b)) * 86400
      + (a.hour - b.hour) * 3600 + (a.minute - b.minute) * 60 + (a.second - b.second)

abs(x) == IF x < 0 THEN 0 - x ELSE x

NoDateTime == DateTime(1, 1, 1, 0, 0, 0)

\* The text of a datetime column.  kind "iso" is the text datetime.isoformat()
\* writes for dt; kind "junk" is a text datetime.fromisoformat() rejects.
isoformat(dt) == [kind |-> "iso", dt |-> dt]

JunkText == [kind |-> "junk", dt |-> NoDateTime]

\* parse_iso_datetime: the datetime, or None (ok = FALSE) on ValueError.
parse_iso_datetime(dt_str) ==
    IF dt_str.kind = "iso" THEN [ok |-> TRUE, dt |-> dt_str.dt]
    ELSE [ok |-> FALSE, dt |-> NoDateTime]

----------------------------------------------------------------------------
(* Emoji.  Each emoji code point the parser names is written as one ASCII   *)
(* character that stands for nothing else in a caption:                     *)
(*   party popper *   sparkles +   rocket >   dizzy ~   glowing star =      *)
(*   fire &   high voltage %   calendar #   clock three @   round pushpin ^ *)
(*   money bag $   trophy {   busts in silhouette }                         *)
(*   clock eleven [   alarm clock ]   clock two-thirty (   clock four )     *)
(*   clock two |   fullwidth colon ;   double exclamation mark <            *)

\* The character class of emoji_strip_pattern.
EmojiStripChars == CharsOf("*+>~=&%#@^${}")

\* The alternation of emoji at the head of time_patterns.
TimeEmojiChars == CharsOf("@[]()|")

\* [: fullwidth-colon]
ColonChars == {":", ";"}

----------------------------------------------------------------------------
(* The re module, on the patterns the parser uses *)

\* s without its first n characters.
Drop(s, n) == SubSeq(s, n + 1, Len(s))

StartsWith(s, prefix) ==
    Len(s) >= Len(prefix) /\ SubSeq(s, 1, Len(prefix)) = prefix

\* ^prefix under re.IGNORECASE.
StartsWithCI(s, prefix) ==
    Len(s) >= Len(prefix) /\ lower(SubSeq(s, 1, Len(prefix))) = lower(prefix)

\* \b just before position p of s (1 <= p <= Len(s) + 1).
Boundary(s, p) ==
    LET before == p > 1 /\ Ch(s, p - 1) \in WordChars
        after == p <= Len(s) /\ Ch(s, p) \in WordChars
    IN  before # after

\* The length of the run of characters of class at the head of s.
RECURSIVE RunLength(_, _)
RunLength(s, class) ==
    IF s # "" /\ Head(s) \in class THEN 1 + RunLength(Tail(s), class) ELSE 0

\* The number a string of digits denotes.
RECURSIVE Number(_)
Number(s) ==
    IF s = "" THEN 0
    ELSE Number(SubSeq(s, 1, Len(s) - 1)) * 10
         + (CHOOSE v \in 0..9 : Ch(Digits, v + 1) = Ch(s, Len(s)))

AllDigits(s) == \A k \in 1..Len(s) : Ch(s, k) \in DigitChars

\* The least element of a set of positions, 0 for the empty set.
First(S) == IF S = {} THEN 0 ELSE SetMin(S)

----------------------------------------------------------------------------
(* datetime.strptime, for the directives the parser's formats use *)

None == [ok |-> FALSE, dt |-> NoDateTime]

Some(dt) == [ok |-> TRUE, dt |-> dt]

DaysInMonth(y, m) ==
    IF m = 12 THEN 31 ELSE DaysBeforeMonth(y, m + 1) - DaysBeforeMonth(y, m)

MonthNames ==
    <<"january", "february", "march", "april", "may", "june", "july", "august",
      "september", "october", "november", "december">>

\* A format string as its directives and literal characters.
RECURSIVE FormatItems(_)
FormatItems(fmt) ==
    IF fmt = "" THEN <<>>
    ELSE IF Head(fmt) = "%" THEN <<SubSeq(fmt, 1, 2)>> \o FormatItems(Drop(fmt, 2))
    ELSE <<Head(fmt)>> \o FormatItems(Tail(fmt))

\* The number the first n characters of s denote, -1 when they are not n digits.
Numeral(s, n) ==
    IF Len(s) >= n /\ AllDigits(SubSeq(s, 1, n)) THEN Number(SubSeq(s, 1, n)) ELSE -1

Consumes(cond, len, val) == IF cond THEN {[len |-> len, val |-> val]} ELSE {}

NameMatches(names, s) ==
    {[len |-> Len(names[k]), val |-> k] : k \in {j \in 1..Len(names) : StartsWithCI(s, names[j])}}

\* What one item of a format can consume at the head of s, as the regular
\* expression _strptime builds for it: the lengths consumed and the values read.
\*   %d  3[0-1]|[1-2]\d|0[1-9]|[1-9]| [1-9]     %m, %I  1[0-2]|0[1-9]|[1-9]
\*   %H  2[0-3]|[0-1]\d|\d                       %M  [0-5]\d|\d
\*   %Y  \d\d\d\d      %B, %b  the month names    %p  am|pm
\*   a blank  \s+      any other character  itself
ItemMatches(item, s) ==
    CASE item = "%d" ->
            Consumes(Numeral(s, 2) \in 1..31, 2, Numeral(s, 2))
            \cup Consumes(Numeral(s, 1) \in 1..9, 1, Numeral(s, 1))
            \cup Consumes(StartsWith(s, " ") /\ Numeral(Drop(s, 1), 1) \in 1..9,
                          2, Numeral(Drop(s, 1), 1))
      [] item \in {"%m", "%I"} ->
            Consumes(Numeral(s, 2) \in 1..12, 2, Numeral(s, 2))
            \cup Consumes(Numeral(s, 1) \in 1..9, 1, Numeral(s, 1))
      [] item = "%H" ->
            Consumes(Numeral(s, 2) \in 0..23, 2, Numeral(s, 2))
            \cup Consumes(Numeral(s, 1) \in 0..9, 1, Numeral(s, 1))
      [] item = "%M" ->
            Consumes(Numeral(s, 2) \in 0..59, 2, Numeral(s, 2))
            \cup Consumes(Numeral(s, 1) \in 0..9, 1, Numeral(s, 1))
      [] item = "%Y" -> Consumes(Numeral(s, 4) >= 0, 4, Numeral(s, 4))
      [] item = "%B" -> NameMatches(MonthNames, s)
      [] item = "%b" ->
            NameMatches(<<"jan", "feb", "mar", "apr", "may", "jun", "jul", "aug", "sep",
                          "oct", "nov", "dec">>, s)
      [] item = "%p" -> NameMatches(<<"am", "pm">>, s)
      [] item = " " -> {[len |-> k, val |-> 0] : k \in 1..RunLength(s, Whitespace)}
      [] OTHER -> Consumes(StartsWith(s, item), 1, 0)

Bind(acc, item, val) ==
    CASE item = "%d" -> [acc EXCEPT !.d = val]
      [] item \in {"%m", "%B", "%b"} -> [acc EXCEPT !.m = val]
      [] item = "%Y" -> [acc EXCEPT !.Y = val]
      [] item = "%H" -> [acc EXCEPT !.H = val]
      [] item = "%I" -> [acc EXCEPT !.I = val]
      [] item = "%M" -> [acc EXCEPT !.M = val]
      [] item = "%p" -> [acc EXCEPT !.p = val]
      [] OTHER -> acc

\* The readings of the whole of s under the items: the string must be
\* consumed to its end ("unconverted data remains" otherwise).
RECURSIVE Readings(_, _, _)
Readings(items, s, acc) ==
    IF items = <<>> THEN (IF s = "" THEN {acc} ELSE {})
    ELSE UNION {Readings(Tail(items), Drop(s, c.len), Bind(acc, Head(items), c.val)) :
                c \in ItemMatches(Head(items), s)}

\* datetime.strptime(s, fmt): the datetime, or None for ValueError.  %I is
\* read with %p: 12 am is hour 0, 12 pm is hour 12, other pm hours gain 12.
strptime(s, fmt) ==
    LET found == Readings(FormatItems(fmt), s,
                          [Y |-> 1900, m |-> 1, d |-> 1, H |-> 0, I |-> 0, M |-> 0, p |-> 0])
    IN  IF found = {} THEN None
        ELSE LET r == CHOOSE x \in found : TRUE
                 hour == IF r.I = 0 THEN r.H
                         ELSE IF r.p = 2 THEN (IF r.I = 12 THEN 12 ELSE r.I + 12)
                         ELSE (IF r.I = 12 THEN 0 ELSE r.I)
             IN  IF r.Y < 1 \/ r.d > DaysInMonth(r.Y, r.m) THEN None
                 ELSE Some(DateTime(r.Y, r.m, r.d, hour, r.M, 0))

\* The first format under which s parses: dt is the parse under the format
\* tried, rest are the formats to try next.
RECURSIVE FirstParse(_, _)
ParsedOrNext(dt, s, rest) == IF dt.ok THEN dt ELSE FirstParse(s, rest)

FirstParse(s, formats) ==
    IF formats = <<>> THEN None
    ELSE ParsedOrNext(strptime(s, Head(formats)), s, Tail(formats))

\* str(n) for a natural number.
RECURSIVE Str(_)
Str(n) == IF n < 10 THEN Ch(Digits, n + 1) ELSE Str(n \div 10) \o Ch(Digits, (n % 10) + 1)

----------------------------------------------------------------------------
(* ingest_agent: the date and time helpers *)

\* re.search(r"\b\d{4}\b", s)
HasYear(s) ==
    \E p \in 1..(Len(s) - 3) :
        AllDigits(SubSeq(s, p, p + 3)) /\ Boundary(s, p) /\ Boundary(s, p + 4)

OrdinalSuffixes == {"st", "nd", "rd", "th"}

\* re.sub(r"(\d+)(st|nd|rd|th)", r"\1", s)
RECURSIVE StripOrdinals(_)
StripOrdinals(s) ==
    IF s = "" THEN ""
    ELSE LET n == RunLength(s, DigitChars)
         IN  IF n = 0 THEN Head(s) \o StripOrdinals(Tail(s))
             ELSE IF Len(s) >= n + 2 /\ SubSeq(s, n + 1, n + 2) \in OrdinalSuffixes
                  THEN SubSeq(s, 1, n) \o StripOrdinals(Drop(s, n + 2))
             ELSE SubSeq(s, 1, n) \o StripOrdinals(Drop(s, n))

DateFormats ==
    <<"%d %B %Y", "%d %B, %Y", "%d %b %Y", "%d %b, %Y",
      "%B %d %Y", "%B %d, %Y", "%d/%m/%Y", "%d-%m-%Y", "%Y-%m-%d">>

\* parse_date_string appending the next year in the second half of a year.
parse_date_string_next_year(date_str, now) ==
    IF date_str = "" THEN None
    ELSE LET stripped == strip(date_str)
             year == IF now.month >= 7 THEN now.year + 1 ELSE now.year
             with_year == IF HasYear(stripped) THEN stripped
                          ELSE stripped \o " " \o Str(year)
         IN  FirstParse(StripOrdinals(with_year), DateFormats)

\* parse_date_string: the date (a datetime at midnight), or None.  now is
\* datetime.now(): its year is appended when the text names none.
parse_date_string(date_str, now) ==
    IF date_str = "" THEN None
    ELSE LET stripped == strip(date_str)
             with_year == IF HasYear(stripped) THEN stripped
                          ELSE stripped \o " " \o Str(now.year)
         IN  FirstParse(StripOrdinals(with_year), DateFormats)

\* Where the free-form date pattern
\*   \b(\d{1,2}(?:st|nd|rd|th)?\s+(?:January|...|December)(?:,?\s*\d{4})?)\b
\* matches from position p of text, under re.IGNORECASE: the position after
\* the match, 0 when it does not match at p.
DateMatchEnd(text, p) ==
    LET rest == Drop(text, p - 1)
        nd == RunLength(rest, DigitChars)
        after_day == Drop(rest, nd)
        ns == IF Len(after_day) >= 2 /\ lower(SubSeq(after_day, 1, 2)) \in OrdinalSuffixes
              THEN 2 ELSE 0
        after_suffix == Drop(after_day, ns)
        nw == RunLength(after_suffix, Whitespace)
        at_month == Drop(after_suffix, nw)
        months == {k \in 1..12 : StartsWithCI(at_month, MonthNames[k])}
        month_len == Len(MonthNames[CHOOSE k \in months : TRUE])
        month_end == p + nd + ns + nw + month_len
        after_month == Drop(at_month, month_len)
        comma == IF StartsWith(after_month, ",") THEN 1 ELSE 0
        blanks == RunLength(Drop(after_month, comma), Whitespace)
        at_year == Drop(after_month, comma + blanks)
        year_end == month_end + comma + blanks + 4
    IN  IF ~(Boundary(text, p) /\ nd \in {1, 2} /\ nw >= 1 /\ months # {}) THEN 0
        ELSE IF Numeral(at_year, 4) >= 0 /\ Boundary(text, year_end) THEN year_end
        ELSE IF Boundary(text, month_end) THEN month_end
        ELSE 0

\* extract_date_from_text: the first match of the pattern, parsed.
extract_date_from_text(text, now) ==
    LET p == First({q \in 1..Len(text) : DateMatchEnd(text, q) # 0})
    IN  IF p = 0 THEN None
        ELSE parse_date_string(SubSeq(text, p, DateMatchEnd(text, p) - 1), now)

\* The hour and minute head of the first two patterns of extract_time_from_text,
\*   \b([01]?\d|2[0-3])[:.]([0-5]\d)
\* from position p: the position after it, 0 when it does not match at p.
ClockEnd(text, p) ==
    LET rest == Drop(text, p - 1)
        nh == RunLength(rest, DigitChars)
        after_hour == Drop(rest, nh)
    IN  IF /\ Boundary(text, p)
           /\ nh = 1 \/ (nh = 2 /\ Numeral(rest, 2) \in 0..23)
           /\ (StartsWith(after_hour, ":") \/ StartsWith(after_hour, "."))
           /\ Numeral(Drop(after_hour, 1), 2) \in 0..59
        THEN p + nh + 3
        ELSE 0

\* \s*(AM|PM)\b from position p, under re.IGNORECASE.
MeridiemEnd(text, p) ==
    LET rest == Drop(text, p - 1)
        nw == RunLength(rest, Whitespace)
        at_word == Drop(rest, nw)
    IN  IF (StartsWithCI(at_word, "AM") \/ StartsWithCI(at_word, "PM"))
           /\ Boundary(text, p + nw + 2)
        THEN p + nw + 2
        ELSE 0

\* \b([01]?\d|2[0-3])[:.]([0-5]\d)\s*(AM|PM)\b
TimeMatchEnd1(text, p) ==
    IF ClockEnd(text, p) = 0 THEN 0 ELSE MeridiemEnd(text, ClockEnd(text, p))

\* \b([01]?\d|2[0-3])[:.]([0-5]\d)\b
TimeMatchEnd2(text, p) ==
    IF ClockEnd(text, p) # 0 /\ Boundary(text, ClockEnd(text, p)) THEN ClockEnd(text, p) ELSE 0

\* \b(1[0-2]|[1-9])\s*(AM|PM)\b
TimeMatchEnd3(text, p) ==
    LET rest == Drop(text, p - 1)
        two == IF Numeral(rest, 2) \in 10..12 THEN MeridiemEnd(text, p + 2) ELSE 0
        one == IF Numeral(rest, 1) \in 1..9 THEN MeridiemEnd(text, p + 1) ELSE 0
    IN  IF ~Boundary(text, p) THEN 0
        ELSE IF two # 0 THEN two
        ELSE one

\* extract_time_from_text: m.group(0) of the first of the three patterns that
\* matches anywhere in the text, "" when none does.
extract_time_from_text(text) ==
    LET p1 == First({q \in 1..Len(text) : TimeMatchEnd1(text, q) # 0})
        p2 == First({q \in 1..Len(text) : TimeMatchEnd2(text, q) # 0})
        p3 == First({q \in 1..Len(text) : TimeMatchEnd3(text, q) # 0})
    IN  IF p1 # 0 THEN SubSeq(text, p1, TimeMatchEnd1(text, p1) - 1)
        ELSE IF p2 # 0 THEN SubSeq(text, p2, TimeMatchEnd2(text, p2) - 1)
        ELSE IF p3 # 0 THEN SubSeq(text, p3, TimeMatchEnd3(text, p3) - 1)
        ELSE ""

TimeFormats == <<"%I:%M %p", "%H:%M", "%I %p", "%I.%M %p", "%H.%M">>

\* datetime.combine(date_obj, t)
combine(date_obj, t) ==
    DateTime(date_obj.year, date_obj.month, date_obj.day, t.hour, t.minute, t.second)

\* datetime.min.time().replace(hour=10)
TenAM == DateTime(1, 1, 1, 10, 0, 0)

\* combine_date_time: the date at the time the text parses to, at 10:00 when
\* it does not parse.
combine_date_time(date_obj, time_str) ==
    LET t == FirstParse(strip(time_str), TimeFormats)
    IN  IF t.ok THEN combine(date_obj, t.dt) ELSE combine(date_obj, TenAM)

----------------------------------------------------------------------------
(* ingest_agent.parse_caption: the line patterns.  They are matched against *)
(* the stripped, non-empty lines of a caption, which hold no line break.    *)

NoMatch == [ok |-> FALSE, text |-> ""]

Matched(text) == [ok |-> TRUE, text |-> text]

\* The first successful match of a sequence of match results.
RECURSIVE FirstMatch(_)
FirstMatch(results) ==
    IF results = <<>> THEN NoMatch
    ELSE IF Head(results).ok THEN Head(results)
    ELSE FirstMatch(Tail(results))

\* greeting_pattern.match(ln)
greeting_pattern(ln) ==
    \E g \in {"Greetings", "Warm", "Hello", "Hi", "Get ready", "Are you ready",
              "Think you", "Join us"} : StartsWithCI(ln, g)

\* filler_pattern.match(ln): Event\s*Details:? and the fixed phrases.
filler_pattern(ln) ==
    \/ \E f \in {"Details", "What are you waiting for", "Here's what", "Save the date"} :
          StartsWithCI(ln, f)
    \/ StartsWithCI(ln, "Event") /\ StartsWithCI(lstrip(Drop(ln, 5)), "Details")

\* emoji_strip_pattern.sub("", ln): ln without its leading run of emoji.
emoji_strip(ln) == Drop(ln, RunLength(ln, EmojiStripChars))

\* ^label\s*[: fullwidth-colon]\s*(.+)$ under re.IGNORECASE: group(1).strip().
Labeled(ln, label) ==
    LET at_colon == lstrip(Drop(ln, Len(label)))
        rest == Drop(at_colon, 1)
    IN  IF /\ StartsWithCI(ln, label)
           /\ at_colon # ""
           /\ Head(at_colon) \in ColonChars
           /\ rest # ""
        THEN Matched(strip(rest))
        ELSE NoMatch

\* ^(?:emoji\s*)?label\s*[: fullwidth-colon]\s*(.+)$
OptionalEmojiLabeled(ln, emoji, label) ==
    IF ln # "" /\ Head(ln) \in emoji /\ Labeled(lstrip(Tail(ln)), label).ok
    THEN Labeled(lstrip(Tail(ln)), label)
    ELSE Labeled(ln, label)

\* ^emoji\s*label\s*[: fullwidth-colon]\s*(.+)$
EmojiLabeled(ln, emoji, label) ==
    IF ln # "" /\ Head(ln) \in emoji THEN Labeled(lstrip(Tail(ln)), label) ELSE NoMatch

\* ^emoji\s*(.+)$
EmojiThen(ln, emoji) ==
    IF ln # "" /\ Head(ln) \in emoji /\ Tail(ln) # "" THEN Matched(strip(Tail(ln))) ELSE NoMatch

\* The first of date_patterns that matches ln.
date_patterns(ln) ==
    FirstMatch(<<OptionalEmojiLabeled(ln, {"#"}, "Date"),
                 EmojiThen(ln, {"#"}),
                 Labeled(ln, "Date")>>)

\* The first of time_patterns that matches ln.
time_patterns(ln) ==
    FirstMatch(<<EmojiLabeled(ln, TimeEmojiChars, "Time"),
                 Labeled(ln, "Time"),
                 EmojiThen(ln, TimeEmojiChars)>>)

\* The first of venue_patterns that matches ln.
venue_patterns(ln) ==
    FirstMatch(<<OptionalEmojiLabeled(ln, {"^"}, "Venue"),
                 EmojiThen(ln, {"^"})>>)

\* re.split(r"\s+to\s+|\s*-\s*", times_text, flags=re.IGNORECASE)[0].strip():
\* the text before the first " to " or dash.
SplitsAt(text, p) ==
    LET rest == Drop(text, p - 1)
        nw == RunLength(rest, Whitespace)
        after == Drop(rest, nw)
    IN  \/ StartsWith(after, "-")
        \/ /\ nw >= 1
           /\ StartsWithCI(after, "to")
           /\ RunLength(Drop(after, 2), Whitespace) >= 1

start_time(times_text) ==
    LET p == First({q \in 1..Len(times_text) : SplitsAt(times_text, q)})
    IN  IF p = 0 THEN strip(times_text) ELSE strip(SubSeq(times_text, 1, p - 1))

----------------------------------------------------------------------------
(* ingest_agent.parse_caption: the announcement patterns (event_patterns) *)

\* What may follow the lazy group (.+?): kind "at" is (?:\s+at|\s*!|\s*!!|\s*$),
\* kind "end" is (?:\s*!|\s*!!|\s*$), kind "?" is \? (!! the double
\* exclamation mark).
EndsGroup(rest, kind) ==
    LET nw == RunLength(rest, Whitespace)
        after == Drop(rest, nw)
    IN  IF kind = "?" THEN StartsWith(rest, "?")
        ELSE \/ after = ""
             \/ StartsWith(after, "!")
             \/ StartsWith(after, "<")
             \/ kind = "at" /\ nw >= 1 /\ StartsWithCI(after, "at")

\* The shortest non-empty group from position g of ln that is followed by a
\* terminator: its length, 0 when there is none.
GroupLength(ln, g, kind) ==
    First({n \in 1..(Len(ln) - g + 1) : EndsGroup(Drop(ln, g + n - 1), kind)})

\* phrase\s+(.+?)terminator matched from position p of ln: \s+ takes as many
\* blanks as leave a group; the result is [start, len] of the group, len 0
\* when the pattern does not match at p.
PhraseAt(ln, p, phrase, kind) ==
    LET rest == Drop(ln, p - 1)
        nw == RunLength(Drop(rest, Len(phrase)), Whitespace)
        starts == {p + Len(phrase) + k : k \in 1..nw}
        good == {g \in starts : GroupLength(ln, g, kind) # 0}
    IN  IF StartsWithCI(rest, phrase) /\ good # {}
        THEN [start |-> SetMax(good), len |-> GroupLength(ln, SetMax(good), kind)]
        ELSE [start |-> 0, len |-> 0]

\* ep.search(ln) for one announcement pattern: group(1) of the leftmost match.
PhraseSearch(ln, phrase, kind) ==
    LET p == First({q \in 1..Len(ln) : PhraseAt(ln, q, phrase, kind).len # 0})
        g == PhraseAt(ln, p, phrase, kind)
    IN  IF p = 0 THEN NoMatch ELSE Matched(SubSeq(ln, g.start, g.start + g.len - 1))

\* The first of event_patterns that is found in ln.
event_patterns(ln) ==
    FirstMatch(<<PhraseSearch(ln, "presents", "at"),
                 PhraseSearch(ln, "invite you to", "end"),
                 PhraseSearch(ln, "Think you can", "?"),
                 PhraseSearch(ln, "Get ready for", "end"),
                 PhraseSearch(ln, "Join us for", "end"),
                 PhraseSearch(ln, "presents:", "at")>>)

\* re.sub(r"\s+(challenge|competition|workshop|event)$", r" \1", title,
\* flags=re.IGNORECASE): the blanks before such a last word become one blank.
NormaliseTail(title) ==
    LET tails == {w \in {"challenge", "competition", "workshop", "event"} :
                     /\ Len(title) > Len(w)
                     /\ lower(SubSeq(title, Len(title) - Len(w) + 1, Len(title))) = w
                     /\ Ch(title, Len(title) - Len(w)) \in Whitespace}
        w == CHOOSE x \in tails : \A y \in tails : Len(x) >= Len(y)
        head == SubSeq(title, 1, Len(title) - Len(w))
    IN  IF tails = {} THEN title
        ELSE rstrip(head) \o " " \o SubSeq(title, Len(title) - Len(w) + 1, Len(title))

\* title = title or other: the second operand is used when the first is "".
OrElse(title, other) == IF title # "" THEN title ELSE other

\* The title an announcement match holds: group(1).strip(), its tail normalised.
TitleIn(m) == IF m.ok THEN NormaliseTail(strip(m.text)) ELSE ""

\* Step 3 of parse_caption: the title of the first line an announcement
\* pattern yields a non-empty title from, "" when there is none.
RECURSIVE AnnouncedTitle(_)
AnnouncedTitle(lines) ==
    IF lines = <<>> THEN ""
    ELSE OrElse(TitleIn(event_patterns(Head(lines))), AnnouncedTitle(Tail(lines)))

----------------------------------------------------------------------------
(* ingest_agent.parse_caption *)

\* The result tuple (title, datetime_obj, location, description).
Parsed(title, datetime_obj, location, description) ==
    [title |-> title, datetime_obj |-> datetime_obj,
     location |-> location, description |-> description]

\* [ln.strip() for ln in caption_text.splitlines()], without the empty ones.
LinesOf(caption_text) == StripNonEmpty(split(caption_text, "\n"))

IsCandidate(ln) ==
    /\ ~greeting_pattern(ln)
    /\ ~filler_pattern(ln)
    /\ Len(ln) > 5
    /\ strip(emoji_strip(ln)) # ""

HasCleanText(ln) == strip(emoji_strip(ln)) # ""

CleanEach(lines) == [k \in 1..Len(lines) |-> strip(emoji_strip(lines[k]))]

\* The candidate title lines: the lines that are no greeting, no filler and
\* longer than 5, emoji-stripped; every emoji-stripped line when there is none.
CandidatesOf(lines) ==
    IF SelectSeq(lines, IsCandidate) # <<>>
    THEN CleanEach(SelectSeq(lines, IsCandidate))
    ELSE CleanEach(SelectSeq(lines, HasCleanText))

\* Step 1: the first line a date pattern matches with a text that parses as a
\* date; idx is its position (from 1), 0 when there is none.
RECURSIVE FindDateLine(_, _, _)
DateLineOrNext(date_obj, lines, i, now) ==
    IF date_obj.ok THEN [idx |-> i, date_obj |-> date_obj]
    ELSE FindDateLine(lines, i + 1, now)

\* parse_date_string(m.group(1).strip()) of a date pattern's match.
MarkedDate(m, now) == IF m.ok THEN parse_date_string(m.text, now) ELSE None

FindDateLine(lines, i, now) ==
    IF i > Len(lines) THEN [idx |-> 0, date_obj |-> None]
    ELSE DateLineOrNext(MarkedDate(date_patterns(lines[i]), now), lines, i, now)

\* Step 2: the line above the date line, emoji-stripped, when it is longer
\* than 3 and neither greeting nor filler; "" otherwise.
TitleAboveDate(lines, date_line_idx) ==
    IF date_line_idx > 1
    THEN LET candidate == lines[date_line_idx - 1]
             clean_candidate == strip(emoji_strip(candidate))
         IN  IF /\ Len(clean_candidate) > 3
                /\ ~greeting_pattern(candidate)
                /\ ~filler_pattern(candidate)
             THEN clean_candidate
             ELSE ""
    ELSE ""

\* Step 4: the first candidate of length 3 to 59.
IsShortCandidate(ln) == 3 <= Len(ln) /\ Len(ln) < 60

FirstShortCandidate(candidates) ==
    IF SelectSeq(candidates, IsShortCandidate) = <<>> THEN ""
    ELSE Head(SelectSeq(candidates, IsShortCandidate))

\* Step 5: the first line that is no greeting and, emoji-stripped, longer than 3.
IsFallbackTitle(ln) == Len(strip(emoji_strip(ln))) > 3 /\ ~greeting_pattern(ln)

FirstNonGreeting(lines) ==
    IF SelectSeq(lines, IsFallbackTitle) = <<>> THEN ""
    ELSE strip(emoji_strip(Head(SelectSeq(lines, IsFallbackTitle))))

\* Steps 2 to 5, each used when the ones before it gave no title.
TitleOf(lines, date_line_idx) ==
    OrElse(TitleAboveDate(lines, date_line_idx),
           OrElse(AnnouncedTitle(lines),
                  OrElse(FirstShortCandidate(CandidatesOf(lines)),
                         FirstNonGreeting(lines))))

\* Step 6 a): event_time_str after the line whose time_patterns match is tm.
TimeAfter(tm, got) ==
    IF tm.ok /\ got.event_time_str = "" THEN start_time(tm.text) ELSE got.event_time_str

\* Step 6 b): location after the line whose venue_patterns match is vm.
LocationAfter(vm, got) ==
    IF vm.ok /\ got.location = "" THEN vm.text ELSE got.location

\* Step 6 on one line: `continue` once a time is known, else `continue` once
\* a location is known, else the line joins description_parts.
GatherLine(ln, got, event_time_str, location) ==
    IF event_time_str # "" THEN [got EXCEPT !.event_time_str = event_time_str]
    ELSE IF location # "" THEN [got EXCEPT !.location = location]
    ELSE [got EXCEPT !.description_parts = Append(@, ln)]

\* Step 6, from line i on: got holds event_time_str, location and
\* description_parts; skip is the position of the title-above-date line that
\* is left out, 0 when no line is.
RECURSIVE Gather(_, _, _, _)
Gather(lines, i, skip, got) ==
    IF i > Len(lines) THEN got
    ELSE IF i = skip THEN Gather(lines, i + 1, skip, got)
    ELSE Gather(lines, i + 1, skip,
                GatherLine(lines[i], got,
                           TimeAfter(time_patterns(lines[i]), got),
                           LocationAfter(venue_patterns(lines[i]), got)))

\* Steps 7 to 9 with a date made up when none is found: today at 10:00.
DateTimeOf_defaults_to_now(caption_text, date_obj, event_time_str, now) ==
    LET date == IF date_obj.ok THEN date_obj ELSE extract_date_from_text(caption_text, now)
        time == IF event_time_str # "" THEN event_time_str
                ELSE extract_time_from_text(caption_text)
    IN  IF date.ok /\ time # "" THEN Some(combine_date_time(date.dt, time))
        ELSE IF date.ok THEN Some(combine(date.dt, TenAM))
        ELSE Some(combine(now, TenAM))

\* Combined with noon as the default time.
Combined_defaults_to_noon(date, time) ==
    IF date.ok /\ time # "" THEN Some(combine_date_time(date.dt, time))
    ELSE IF date.ok THEN Some(combine(date.dt, DateTime(1, 1, 1, 12, 0, 0)))
    ELSE None

\* Step 9: the date at the time the text parses to; at 10:00 without a time;
\* None without a date.
Combined(date, time) ==
    IF date.ok /\ time # "" THEN Some(combine_date_time(date.dt, time))
    ELSE IF date.ok THEN Some(combine(date.dt, TenAM))
    ELSE None

\* Steps 7 to 9: the marker date or else the free-form date, combined with
\* the marker time or else the free-form time.
DateTimeOf(caption_text, date_obj, event_time_str, now) ==
    Combined(IF date_obj.ok THEN date_obj ELSE extract_date_from_text(caption_text, now),
             OrElse(event_time_str, extract_time_from_text(caption_text)))

\* The description: the gathered lines joined by blanks, or else the caption,
\* cut to 200 characters and marked when it is longer.
DescriptionOf(caption_text, description_parts) ==
    IF description_parts # <<>> THEN join(description_parts, " ")
    ELSE IF Len(caption_text) > 200 THEN SubSeq(caption_text, 1, 200) \o "..."
    ELSE caption_text

\* The position of the line step 6 leaves out: the line above the date line
\* when it is the title, 0 when no line is left out.
SkippedLine(lines, date_line_idx, title) ==
    IF date_line_idx > 1 /\ title = lines[date_line_idx - 1] THEN date_line_idx - 1 ELSE 0

\* Steps 7 to 10, from the title, the marker date and what step 6 gathered.
Assemble(caption_text, title, date_obj, got, now) ==
    Parsed(OrElse(title, "Event"),
           DateTimeOf(caption_text, date_obj, got.event_time_str, now),
           got.location,
           DescriptionOf(caption_text, got.description_parts))

\* Steps 6 to 10, from the title and the date line.
ParseTitled(caption_text, lines, found, title, now) ==
    Assemble(caption_text, title, found.date_obj,
             Gather(lines, 1, SkippedLine(lines, found.idx, title),
                    [event_time_str |-> "", location |-> "", description_parts |-> <<>>]),
             now)

\* Steps 2 to 10, from the date line.
ParseDated(caption_text, lines, found, now) ==
    ParseTitled(caption_text, lines, found, TitleOf(lines, found.idx), now)

\* Steps 1 to 10, from the stripped non-empty lines.
ParseLines(caption_text, lines, now) ==
    ParseDated(caption_text, lines, FindDateLine(lines, 1, now), now)

\* parse_caption(caption_text), called when datetime.now() is now.
parse_caption(caption_text, now) ==
    IF strip(caption_text) = "" THEN Parsed("", None, "", "")
    ELSE ParseLines(caption_text, LinesOf(caption_text), now)

----------------------------------------------------------------------------
(* The events table *)

\* Columns of the events table of db_init.init_db.
DbInitColumns ==
    {"id", "title", "datetime", "location", "description", "source", "category", "deduped"}

\* Columns of the events table of dedupe_agent.init_events_table.
DedupeColumns ==
    {"id", "title", "datetime", "location", "description", "sources"}

\* Columns named by find_matching_event's SELECT.
SelectColumns == {"id", "datetime", "sources", "description", "title", "location"}

\* Columns named by dedupe_raw_events' INSERT and UPDATE.
InsertColumns == {"title", "datetime", "location", "description", "sources", "source"}

\* An events table on which the statements of dedupe_raw_events execute: one
\* of the two CREATE TABLE statements, with the columns it lacks added.
\* unique: the table carries UNIQUE(title, datetime, location), and with it
\* the automatic index SQLite searches for WHERE title = ?.
\* category_default: the DEFAULT of the category column.
RunnableSchemas ==
    { [columns |-> DbInitColumns \cup SelectColumns \cup InsertColumns,
       unique |-> FALSE, category_default |-> NULL],
      [columns |-> DedupeColumns \cup SelectColumns \cup InsertColumns,
       unique |-> TRUE, category_default |-> NULL] }

\* SQL "a = b": NULL equals nothing, itself included.
SqlEq(a, b) == a # NULL /\ b # NULL /\ a = b

\* Python "x or ''" on a text column value.
OrEmpty(x) == IF x = NULL THEN "" ELSE x

\* Order of two ISO datetime texts in the UNIQUE index: text order, which for
\* isoformat() texts is field by field from the year down.
IsoFields(dt) == <<dt.year, dt.month, dt.day, dt.hour, dt.minute, dt.second>>

IsoTextLess(a, b) ==
    \E k \in 1..6 :
        /\ IsoFields(a)[k] < IsoFields(b)[k]
        /\ \A j \in 1..(k - 1) : IsoFields(a)[j] = IsoFields(b)[j]

\* find_matching_event with the window exclusive at 5 minutes (< for <=).
find_matching_event_exclusive(evs, sch, title, dt_obj, location) ==
    LET within == {k \in 1..Len(evs) :
                      /\ SqlEq(evs[k].title, title) /\ SqlEq(evs[k].location, location)
                      /\ parse_iso_datetime(evs[k].datetime).ok
                      /\ abs(total_seconds(evs[k].datetime.dt, dt_obj)) < 5 * 60}
    IN  IF within = {} THEN 0 ELSE SetMin(within)

\* find_matching_event without abs(): only records at or after the candidate match.
find_matching_event_one_sided(evs, sch, title, dt_obj, location) ==
    LET within == {k \in 1..Len(evs) :
                      /\ SqlEq(evs[k].title, title) /\ SqlEq(evs[k].location, location)
                      /\ parse_iso_datetime(evs[k].datetime).ok
                      /\ total_seconds(evs[k].datetime.dt, dt_obj) <= 5 * 60
                      /\ total_seconds(evs[k].datetime.dt, dt_obj) >= 0}
    IN  IF within = {} THEN 0 ELSE SetMin(within)

\* find_matching_event with `break` for `continue` at a stored datetime that
\* does not parse: the search ends at the first such row.
find_matching_event_stops_at_malformed(evs, sch, title, dt_obj, location) ==
    LET candidates == {k \in 1..Len(evs) :
                          SqlEq(evs[k].title, title) /\ SqlEq(evs[k].location, location)}
        before(a, b) ==
            IF sch.unique
            THEN \/ IsoTextLess(evs[a].datetime.dt, evs[b].datetime.dt)
                 \/ (evs[a].datetime.dt = evs[b].datetime.dt /\ a <= b)
            ELSE a <= b
        within == {k \in candidates :
                      /\ \A j \in candidates :
                            before(j, k) => parse_iso_datetime(evs[j].datetime).ok
                      /\ abs(total_seconds(evs[k].datetime.dt, dt_obj)) <= 5 * 60}
    IN  IF within = {} THEN 0
        ELSE CHOOSE k \in within : \A j \in within : before(k, j)

\* find_matching_event returning the last row within the window instead of
\* the first (no `return` inside the loop).
find_matching_event_last_in_scan(evs, sch, title, dt_obj, location) ==
    LET within == {k \in 1..Len(evs) :
                      /\ SqlEq(evs[k].title, title) /\ SqlEq(evs[k].location, location)
                      /\ parse_iso_datetime(evs[k].datetime).ok
                      /\ abs(total_seconds(evs[k].datetime.dt, dt_obj)) <= 5 * 60}
        before(a, b) ==
            IF sch.unique
            THEN \/ IsoTextLess(evs[a].datetime.dt, evs[b].datetime.dt)
                 \/ (evs[a].datetime.dt = evs[b].datetime.dt /\ a <= b)
            ELSE a <= b
    IN  IF within = {} THEN 0
        ELSE CHOOSE k \in within : \A j \in within : before(j, k)

\* find_matching_event: the id of the first row, in the order the SELECT
\* returns rows, with the same title and location and a datetime within
\* 5 minutes of dt_obj; 0 when there is none (None).
\* The SELECT has no ORDER BY: SQLite returns rowid order from a table scan
\* and (datetime, rowid) order from a search of the UNIQUE index.
find_matching_event(evs, sch, title, dt_obj, location) ==
    LET candidates == {k \in 1..Len(evs) :
                          SqlEq(evs[k].title, title) /\ SqlEq(evs[k].location, location)}
        within == {k \in candidates :
                      LET existing_dt == parse_iso_datetime(evs[k].datetime)
                      IN  /\ existing_dt.ok
                          /\ abs(total_seconds(existing_dt.dt, dt_obj)) <= 5 * 60}
        before(a, b) ==
            IF sch.unique
            THEN \/ IsoTextLess(evs[a].datetime.dt, evs[b].datetime.dt)
                 \/ (evs[a].datetime.dt = evs[b].datetime.dt /\ a <= b)
            ELSE a <= b
    IN  IF within = {} THEN 0
        ELSE CHOOSE k \in within : \A j \in within : before(k, j)

\* The sources text: handles joined by ",".
SourceList(existing_sources) == StripNonEmpty(split(existing_sources, ","))

\* The description text: fragments joined by "\n---\n".
Separator == "\n---\n"

DescList(existing_desc) == StripNonEmpty(split(existing_desc, Separator))

\* The match branch without the membership tests: source and description are
\* always appended.
MergeInto_always_append(evs, event_id, row, k) ==
    LET ev == evs[event_id]
    IN  [evs EXCEPT ![event_id] =
            [ev EXCEPT !.sources = join(Append(SourceList(ev.sources), row.source), ","),
                       !.description = join(Append(DescList(ev.description),
                                                   strip(row.description)), Separator),
                       !.members = ev.members \cup {k}]]

\* The match branch overwriting sources and description with the candidate's.
MergeInto_overwrite(evs, event_id, row, k) ==
    LET ev == evs[event_id]
    IN  [evs EXCEPT ![event_id] =
            [ev EXCEPT !.sources = row.source,
                       !.description = strip(row.description),
                       !.members = ev.members \cup {k}]]

\* The match branch updating the description only.
MergeInto_keeps_sources(evs, event_id, row, k) ==
    LET ev == evs[event_id]
        desc_list == DescList(ev.description)
        d == strip(row.description)
        new_desc_list == IF d # "" /\ ~Contains(desc_list, d)
                         THEN Append(desc_list, d) ELSE desc_list
    IN  [evs EXCEPT ![event_id] =
            [ev EXCEPT !.description = join(new_desc_list, Separator),
                       !.members = ev.members \cup {k}]]

\* MergeInto that also moves the record's datetime to the candidate's.
MergeInto_moves_time(evs, event_id, row, k) ==
    LET ev == evs[event_id]
        source_list == SourceList(ev.sources)
        new_source_list == IF ~Contains(source_list, row.source)
                           THEN Append(source_list, row.source) ELSE source_list
        desc_list == DescList(ev.description)
        d == strip(row.description)
        new_desc_list == IF d # "" /\ ~Contains(desc_list, d)
                         THEN Append(desc_list, d) ELSE desc_list
    IN  [evs EXCEPT ![event_id] =
            [ev EXCEPT !.sources = join(new_source_list, ","),
                       !.description = join(new_desc_list, Separator),
                       !.datetime = row.datetime,
                       !.members = ev.members \cup {k}]]

\* dedupe_raw_events, the match branch: the UPDATE of row event_id.
\* members is a history field (the raw rows folded into the record), not a column.
MergeInto(evs, event_id, row, k) ==
    LET ev == evs[event_id]
        source_list == SourceList(ev.sources)
        new_source_list == IF ~Contains(source_list, row.source)
                           THEN Append(source_list, row.source) ELSE source_list
        desc_list == DescList(ev.description)
        d == strip(row.description)
        new_desc_list == IF d # "" /\ ~Contains(desc_list, d)
                         THEN Append(desc_list, d) ELSE desc_list
    IN  [evs EXCEPT ![event_id] =
            [ev EXCEPT !.sources = join(new_source_list, ","),
                       !.description = join(new_desc_list, Separator),
                       !.members = ev.members \cup {k}]]

\* InsertNew that stores the description trimmed.
InsertNew_trims(evs, sch, row, k) ==
    Append(evs, [id |-> Len(evs) + 1,
                 title |-> row.title,
                 datetime |-> row.datetime,
                 location |-> row.location,
                 description |-> strip(row.description),
                 sources |-> row.source,
                 category |-> (IF "category" \in sch.columns THEN sch.category_default ELSE NULL),
                 members |-> {k}])

\* dedupe_raw_events, the no-match branch: the INSERT of a new row.
InsertNew(evs, sch, row, k) ==
    Append(evs, [id |-> Len(evs) + 1,
                 title |-> row.title,
                 datetime |-> row.datetime,
                 location |-> row.location,
                 description |-> row.description,
                 sources |-> row.source,
                 category |-> (IF "category" \in sch.columns THEN sch.category_default ELSE NULL),
                 members |-> {k}])

\* The INSERT violates UNIQUE(title, datetime, location): sqlite3.IntegrityError.
UniqueViolated(evs, sch, row) ==
    /\ sch.unique
    /\ \E j \in 1..Len(evs) :
          /\ evs[j].title = row.title
          /\ evs[j].datetime = row.datetime
          /\ SqlEq(evs[j].location, row.location)

\* One iteration of the for loop of dedupe_raw_events on a well-formed row.
Consolidate(evs, sch, row, k) ==
    LET dt_obj == parse_iso_datetime(row.datetime)
        match == find_matching_event(evs, sch, row.title, dt_obj.dt, OrEmpty(row.location))
    IN  IF ~dt_obj.ok THEN evs
        ELSE IF match # 0 THEN MergeInto(evs, match, row, k)
        ELSE InsertNew(evs, sch, row, k)

\* The for loop of dedupe_raw_events over rows taken in the given order of
\* positions, from the registry evs.
RECURSIVE DedupeFrom(_, _, _, _)
DedupeFrom(evs, sch, rows, order) ==
    IF order = <<>> THEN evs
    ELSE DedupeFrom(Consolidate(evs, sch, rows[Head(order)], Head(order)),
                    sch, rows, Tail(order))

----------------------------------------------------------------------------
(* classify_agent *)

Other == "Other"

\* CATEGORY_KEYWORDS, in the order of the dict.
CATEGORY_KEYWORDS ==
    << [category |-> "Technical",
        keywords |-> <<"hackathon", "workshop", "coding", "tech", "developer",
                       "programming", "algorithm", "data science", "ai", "ml">>],
       [category |-> "Cultural",
        keywords |-> <<"concert", "music", "dance", "drama", "theatre", "fest",
                       "cultural", "band", "choir", "art", "creative">>],
       [category |-> "Sports",
        keywords |-> <<"tournament", "match", "game", "league", "cricket", "football",
                       "basketball", "volleyball", "athletics", "race", "sport">>],
       [category |-> "Career",
        keywords |-> <<"career", "internship", "job", "placement", "seminar",
                       "technical talk", "tech talk", "recruitment", "dpi", "resume",
                       "workshop">>],
       [category |-> "Social",
        keywords |-> <<"social", "networking", "meetup", "mixer", "party",
                       "get-together", "gathering", "alumni">>] >>

\* The positions of text where \b holds before a word character: the start
\* of the text and every position after a character that is not a word
\* character.
WordStarts(text) == {p \in 1..Len(text) : p = 1 \/ Ch(text, p - 1) \notin WordChars}

\* re.compile(r"\b" + re.escape(keyword) + r"\b", re.IGNORECASE).search(text),
\* given the case-folded text and the positions where the leading \b holds:
\* the keyword occurs, letter case aside, between word boundaries.  Every
\* keyword begins and ends with a word character, so the trailing \b holds
\* where the next character is missing or is not a word character.
pat_search(keyword, folded, starts) ==
    LET n == Len(keyword)
    IN  \E p \in starts :
            /\ p + n - 1 <= Len(folded)
            /\ SubSeq(folded, p, p + n - 1) = keyword
            /\ p + n > Len(folded) \/ Ch(folded, p + n) \notin WordChars

FamilyMatches(family, folded, starts) ==
    \E k \in 1..Len(family.keywords) : pat_search(lower(family.keywords[k]), folded, starts)

\* classify_text without the fallback: nothing is returned when no family matches.
classify_text_no_fallback(text) ==
    LET folded == lower(text)
        starts == WordStarts(text)
        hits == {c \in 1..Len(CATEGORY_KEYWORDS) :
                    FamilyMatches(CATEGORY_KEYWORDS[c], folded, starts)}
    IN  IF hits = {} THEN NULL ELSE CATEGORY_KEYWORDS[SetMin(hits)].category

\* classify_text returning the last family that matches instead of the first.
classify_text_last_family(text) ==
    LET folded == lower(text)
        starts == WordStarts(text)
        hits == {c \in 1..Len(CATEGORY_KEYWORDS) :
                    FamilyMatches(CATEGORY_KEYWORDS[c], folded, starts)}
    IN  IF hits = {} THEN Other ELSE CATEGORY_KEYWORDS[SetMax(hits)].category

\* classify_text: the first family, in dict order, one of whose keywords
\* matches; "Other" when none does.
classify_text(text) ==
    LET folded == lower(text)
        starts == WordStarts(text)
        hits == {c \in 1..Len(CATEGORY_KEYWORDS) :
                    FamilyMatches(CATEGORY_KEYWORDS[c], folded, starts)}
    IN  IF hits = {} THEN Other ELSE CATEGORY_KEYWORDS[SetMin(hits)].category

\* str(x) inside an f-string: None prints as "None".
FormatText(x) == IF x = NULL THEN "None" ELSE x

\* text_blob = f"{title}\n{description}".lower()
text_blob(title, description) ==
    lower(FormatText(title) \o "\n" \o FormatText(description))

Categories == {"Technical", "Cultural", "Sports", "Career", "Social", Other}

EmptyCounts == [c \in Categories |-> 0]

----------------------------------------------------------------------------
(* The rows the model draws for raw_events *)

\* Two of INSTAGRAM_HANDLES.
Dsync == "dsync_bmsce"

Csbs == "csbs_bmsce"

\* 2025-06-04 at h:mi:s.
At(h, mi, s) == isoformat(DateTime(2025, 6, 4, h, mi, s))

\* A row of raw_events.  post is a history field, not a column: the position
\* in posts of the post the row was ingested from, 0 for a row of an earlier run.
RawRow(t, dt, loc, desc, src) ==
    [title |-> t, datetime |-> dt, location |-> loc, description |-> desc, source |-> src,
     post |-> 0]

\* Timestamps 0 s, 300 s, 301 s and 600 s after 10:00:00; a second source and
\* other descriptions (one with surrounding blanks, one holding the fragment
\* separator, one empty); an empty and an absent location; another title; a
\* datetime text that does not parse.
RawRowChoices ==
    {RawRow("Hack Night", dt, "Lab 2", "fun", Dsync) :
        dt \in {At(10, 0, 0), At(10, 5, 0), At(10, 5, 1), At(10, 10, 0)}}
    \cup {RawRow("Hack Night", At(10, 0, 0), "Lab 2", d, Csbs) :
        d \in {"hackathon", " fun ", "fun\n---\nfun", ""}}
    \cup {RawRow("Hack Night", At(10, 0, 0), "", "fun", Dsync),
          RawRow("Hack Night", At(10, 0, 0), NULL, "fun", Csbs)}
    \cup {RawRow("Jazz Concert", At(10, 0, 0), "Lab 2", "fun", Dsync),
          RawRow("Hack Night", JunkText, "Lab 2", "fun", Dsync)}

\* datetime.now() of a run of dedupe_raw_events on its own.
June2025 == DateTime(2025, 6, 1, 12, 0, 0)

NoCandidate == Parsed("", None, "", "")

RECURSIVE SeqsUpTo(_, _)
SeqsUpTo(S, n) ==
    IF n = 0 THEN {<<>>}
    ELSE LET shorter == SeqsUpTo(S, n - 1)
         IN  shorter \cup {Append(q, x) : q \in {r \in shorter : Len(r) = n - 1}, x \in S}

----------------------------------------------------------------------------
(* dedupe_raw_events *)

Init ==
    /\ schema \in RunnableSchemas
    /\ raw_events \in SeqsUpTo(RawRowChoices, MaxRows)
    /\ raw_rows = <<>>
    /\ raw_idx = 1
    /\ events = <<>>
    /\ inserted_count = 0
    /\ updated_count = 0
    /\ matchers = <<>>
    /\ dedupe_runs = 0
    /\ exits = [scripts |-> <<>>, pipeline |-> <<>>]
    /\ event_rows = <<>>
    /\ event_idx = 1
    /\ category_counts = EmptyCounts
    /\ classify_runs = 0
    /\ posts = <<>>
    /\ post_idx = 1
    /\ parsed = NoCandidate
    /\ clock = June2025
    /\ raw_unique = FALSE
    /\ total_inserted = 0
    /\ total_processed = 0
    /\ pc = "start"

\* Connect, init_events_table (CREATE TABLE IF NOT EXISTS: the table exists),
\* and fetch all rows of raw_events.
DedupeStart ==
    /\ pc = "start"
    /\ schema.columns # {}
    /\ raw_rows' = raw_events
    /\ raw_idx' = 1
    /\ inserted_count' = 0
    /\ updated_count' = 0
    /\ pc' = "dedupe"
    /\ UNCHANGED <<exits, schema, raw_events, events, matchers, dedupe_runs, classify_vars, ingest_vars>>

\* for-loop iteration: the row's datetime does not parse, skip it.
DedupeSkip ==
    /\ pc = "dedupe"
    /\ raw_idx <= Len(raw_rows)
    /\ ~parse_iso_datetime(raw_rows[raw_idx].datetime).ok
    /\ raw_idx' = raw_idx + 1
    /\ UNCHANGED <<exits, schema, raw_events, raw_rows, events, inserted_count, updated_count, matchers, dedupe_runs,
                   classify_vars, pc, ingest_vars>>

Match(row) ==
    find_matching_event(events, schema, row.title,
                        parse_iso_datetime(row.datetime).dt, OrEmpty(row.location))

\* for-loop iteration: a match is found, UPDATE it and commit.
DedupeMerge ==
    /\ pc = "dedupe"
    /\ raw_idx <= Len(raw_rows)
    /\ parse_iso_datetime(raw_rows[raw_idx].datetime).ok
    /\ SelectColumns \subseteq schema.columns
    /\ LET match == Match(raw_rows[raw_idx])
       IN  /\ match # 0
           /\ events[match].description # NULL
           /\ raw_rows[raw_idx].description # NULL
           /\ events' = MergeInto(events, match, raw_rows[raw_idx], raw_idx)
    /\ updated_count' = updated_count + 1
    /\ raw_idx' = raw_idx + 1
    /\ UNCHANGED <<exits, schema, raw_events, raw_rows, inserted_count, matchers, dedupe_runs, classify_vars, pc,
                   ingest_vars>>

\* for-loop iteration: no match, INSERT a new row and commit.
DedupeInsert ==
    /\ pc = "dedupe"
    /\ raw_idx <= Len(raw_rows)
    /\ parse_iso_datetime(raw_rows[raw_idx].datetime).ok
    /\ SelectColumns \subseteq schema.columns
    /\ Match(raw_rows[raw_idx]) = 0
    /\ InsertColumns \subseteq schema.columns
    /\ ~UniqueViolated(events, schema, raw_rows[raw_idx])
    /\ events' = InsertNew(events, schema, raw_rows[raw_idx], raw_idx)
    /\ inserted_count' = inserted_count + 1
    /\ raw_idx' = raw_idx + 1
    /\ UNCHANGED <<exits, schema, raw_events, raw_rows, updated_count, matchers, dedupe_runs, classify_vars, pc,
                   ingest_vars>>

\* for-loop iteration: a match is found and the stored description or the
\* row's description is None: existing_desc.split or description.strip raises
\* AttributeError, which nothing catches; the script ends without summary.
DedupeAbort ==
    /\ pc = "dedupe"
    /\ raw_idx <= Len(raw_rows)
    /\ parse_iso_datetime(raw_rows[raw_idx].datetime).ok
    /\ SelectColumns \subseteq schema.columns
    /\ LET match == Match(raw_rows[raw_idx])
       IN  /\ match # 0
           /\ events[match].description = NULL \/ raw_rows[raw_idx].description = NULL
    /\ pc' = "aborted"
    /\ exits' = [exits EXCEPT !.scripts = Append(@, 1)]
    /\ UNCHANGED <<schema, raw_events, events, dedupe_vars, classify_vars, ingest_vars>>

\* The loop is over: close the connection and print the summary.
DedupeSummary ==
    /\ pc = "dedupe"
    /\ raw_idx > Len(raw_rows)
    /\ dedupe_runs' = dedupe_runs + 1
    /\ pc' = "dedupe_done"
    /\ exits' = [exits EXCEPT !.scripts = Append(@, 0)]
    /\ UNCHANGED <<schema, raw_events, events, raw_rows, raw_idx, inserted_count, updated_count,
                   matchers, classify_vars, ingest_vars>>

----------------------------------------------------------------------------
(* classify_events, run after dedupe_raw_events as run_full_pipeline does *)

\* ClassifyStart resetting every stored category to 'Other' before the loop.
ClassifyStart_resets ==
    /\ pc = "dedupe_done"
    /\ schema.columns # {}
    /\ schema' = [schema EXCEPT !.columns = @ \cup {"category"}, !.category_default = Other]
    /\ events' = [k \in 1..Len(events) |-> [events[k] EXCEPT !.category = Other]]
    /\ event_rows' = [k \in 1..Len(events) |->
                   [id |-> events[k].id, title |-> events[k].title,
                    description |-> events[k].description]]
    /\ event_idx' = 1
    /\ category_counts' = EmptyCounts
    /\ pc' = "classify"
    /\ UNCHANGED <<exits, raw_events, classify_runs, dedupe_vars, ingest_vars>>

\* Connect, init_category_column (ALTER TABLE ... ADD COLUMN category TEXT
\* DEFAULT 'Other' when the column is missing: every stored row then reads
\* 'Other'), and fetch id, title, description of all events.
ClassifyStart ==
    /\ pc = "dedupe_done"
    /\ schema.columns # {}
    /\ IF "category" \in schema.columns
       THEN UNCHANGED <<schema, events>>
       ELSE /\ schema' = [schema EXCEPT !.columns = @ \cup {"category"},
                                        !.category_default = Other]
            /\ events' = [k \in 1..Len(events) |-> [events[k] EXCEPT !.category = Other]]
    /\ {"id", "title", "description"} \subseteq schema.columns
    /\ event_rows' = [k \in 1..Len(events) |->
                   [id |-> events[k].id, title |-> events[k].title,
                    description |-> events[k].description]]
    /\ event_idx' = 1
    /\ category_counts' = EmptyCounts
    /\ pc' = "classify"
    /\ UNCHANGED <<exits, raw_events, classify_runs, dedupe_vars, ingest_vars>>

\* for-loop iteration: classify the row's text, UPDATE its category, commit
\* and tally.
ClassifyRow ==
    /\ pc = "classify"
    /\ event_idx <= Len(event_rows)
    /\ LET row == event_rows[event_idx]
           assigned_category == classify_text(text_blob(row.title, row.description))
       IN  /\ events' = [k \in 1..Len(events) |->
                            IF events[k].id = row.id
                            THEN [events[k] EXCEPT !.category = assigned_category]
                            ELSE events[k]]
           /\ category_counts' = [category_counts EXCEPT ![assigned_category] = @ + 1]
    /\ event_idx' = event_idx + 1
    /\ UNCHANGED <<exits, schema, raw_events, dedupe_vars, event_rows, classify_runs, pc, ingest_vars>>

\* The loop is over: close the connection and print the summary.
ClassifySummary ==
    /\ pc = "classify"
    /\ event_idx > Len(event_rows)
    /\ classify_runs' = classify_runs + 1
    /\ pc' = "classify_done"
    /\ exits' = [exits EXCEPT !.scripts = Append(@, 0)]
    /\ UNCHANGED <<schema, raw_events, events, dedupe_vars, event_rows, event_idx,
                   category_counts, ingest_vars>>

\* dedupe_raw_events run on its own over a raw_events table.
Next ==
    \/ DedupeStart
    \/ DedupeSkip
    \/ DedupeMerge
    \/ DedupeInsert
    \/ DedupeSummary

Spec == Init /\ [][Next]_vars

----------------------------------------------------------------------------
(* ingest_from_instagram *)

Post(handle, caption) == [handle |-> handle, caption |-> caption]

\* The posts the model draws: an announcement with markers; the same event
\* reposted by another handle five minutes later; a caption without any date;
\* a caption with a free-form date without a year; an event more than 730
\* days before the later datetime.now(); a caption under 20 characters; a date marker whose
\* text is no date; a post without a caption.
PostChoices ==
    {Post(Dsync, "* Hack Night\n# Date: 4th June 2025\n@ Time: 6 PM\n^ Venue: Lab 2"),
     Post(Csbs, "Hack Night\nDate: 4 June 2025\nTime: 6:05 PM\nVenue: Lab 2"),
     Post(Dsync, "Jazz Concert tonight in the quad, music for all"),
     Post(Csbs, "Jazz Concert on 5th June at 7 PM, music for all"),
     Post(Dsync, "Code Sprint\nDate: 10 Jan 2024\ncoding workshop"),
     Post(Dsync, "Hack Night"),
     Post(Csbs, "Quiz Night\n# Date: to be announced soon"),
     Post(Dsync, NULL)}

\* Position of a handle in INSTAGRAM_HANDLES.
HandleOrder(handle) == IF handle = Dsync THEN 1 ELSE 2

\* Fetch up to 3 recent posts per handle.
MAX_POSTS_PER_PROFILE == 3

\* The posts of one run: handle by handle in the order of INSTAGRAM_HANDLES,
\* at most MAX_POSTS_PER_PROFILE of each.
PostLists ==
    {q \in SeqsUpTo(PostChoices, MaxPosts) :
        /\ \A a, b \in 1..Len(q) : a < b => HandleOrder(q[a].handle) <= HandleOrder(q[b].handle)
        /\ \A h \in {Dsync, Csbs} :
              Cardinality({k \in 1..Len(q) : q[k].handle = h}) <= MAX_POSTS_PER_PROFILE}

\* The whole pipeline, run_full_pipeline: ingest, dedupe, classify.  The
\* database may hold a raw_events row of an earlier run.
InitPipeline ==
    /\ schema \in RunnableSchemas
    /\ raw_events \in {<<>>, <<RawRow("Hack Night", JunkText, "Lab 2", "fun", Dsync)>>}
    /\ raw_rows = <<>>
    /\ raw_idx = 1
    /\ events = <<>>
    /\ inserted_count = 0
    /\ updated_count = 0
    /\ matchers = <<>>
    /\ dedupe_runs = 0
    /\ exits = [scripts |-> <<>>, pipeline |-> <<>>]
    /\ event_rows = <<>>
    /\ event_idx = 1
    /\ category_counts = EmptyCounts
    /\ classify_runs = 0
    /\ posts \in PostLists
    /\ post_idx = 1
    /\ parsed = NoCandidate
    /\ clock \in {June2025, DateTime(2026, 1, 15, 12, 0, 0)}
    /\ raw_unique \in BOOLEAN
    /\ total_inserted = 0
    /\ total_processed = 0
    /\ pc = "ingest_start"

\* init_db and CREATE TABLE IF NOT EXISTS raw_events: init_db creates the
\* events table when the database has none; on tables that exist both
\* statements are no-ops.
IngestStart ==
    /\ pc = "ingest_start"
    /\ schema' = IF schema.columns = {}
                 THEN [columns |-> DbInitColumns, unique |-> FALSE, category_default |-> NULL]
                 ELSE schema
    /\ total_inserted' = 0
    /\ total_processed' = 0
    /\ post_idx' = 1
    /\ pc' = "ingest"
    /\ UNCHANGED <<exits, raw_events, events, posts, parsed, clock, raw_unique,
                   dedupe_vars, classify_vars>>

\* caption = post.get("caption", "") or ""
CaptionOf(post) == OrEmpty(post.caption)

\* for-loop iteration: the caption is shorter than 20 characters, skip it.
IngestShort ==
    /\ pc = "ingest"
    /\ post_idx <= Len(posts)
    /\ Len(strip(CaptionOf(posts[post_idx]))) < 20
    /\ total_processed' = total_processed + 1
    /\ post_idx' = post_idx + 1
    /\ UNCHANGED <<exits, schema, raw_events, events, posts, parsed, clock, raw_unique,
                   total_inserted, dedupe_vars, classify_vars, pc>>

\* for-loop iteration: parse the caption.
IngestParse ==
    /\ pc = "ingest"
    /\ post_idx <= Len(posts)
    /\ Len(strip(CaptionOf(posts[post_idx]))) >= 20
    /\ total_processed' = total_processed + 1
    /\ parsed' = parse_caption(CaptionOf(posts[post_idx]), clock)
    /\ pc' = "ingest_parsed"
    /\ UNCHANGED <<exits, schema, raw_events, events, posts, post_idx, clock, raw_unique,
                   total_inserted, dedupe_vars, classify_vars>>

\* if not title or not dt_obj
NoTitleOrDate(c) == c.title = "" \/ ~c.datetime_obj.ok

\* dt_obj.date() < datetime.now().date() - timedelta(days=730)
OlderThanTwoYears(c, today) == toordinal(c.datetime_obj.dt) < toordinal(today) - 730

\* The candidate has no title or no datetime: skip the post.
IngestSkipUndated ==
    /\ pc = "ingest_parsed"
    /\ NoTitleOrDate(parsed)
    /\ post_idx' = post_idx + 1
    /\ pc' = "ingest"
    /\ UNCHANGED <<exits, schema, raw_events, events, posts, parsed, clock, raw_unique,
                   total_inserted, total_processed, dedupe_vars, classify_vars>>

\* The candidate is more than 730 days old: skip the post.
IngestSkipOld ==
    /\ pc = "ingest_parsed"
    /\ ~NoTitleOrDate(parsed)
    /\ OlderThanTwoYears(parsed, clock)
    /\ post_idx' = post_idx + 1
    /\ pc' = "ingest"
    /\ UNCHANGED <<exits, schema, raw_events, events, posts, parsed, clock, raw_unique,
                   total_inserted, total_processed, dedupe_vars, classify_vars>>

\* INSERT OR IGNORE would violate UNIQUE(title, datetime, source).
RawDuplicate(rows, c, handle) ==
    /\ raw_unique
    /\ \E k \in 1..Len(rows) :
          /\ rows[k].title = c.title
          /\ rows[k].datetime = isoformat(c.datetime_obj.dt)
          /\ rows[k].source = handle

\* INSERT OR IGNORE INTO raw_events inserts the row and commits.  The INSERT
\* INTO notifications that follows for an event of today or later fails, no
\* statement of the repository creating that table, and the failure is caught.
IngestInsert ==
    /\ pc = "ingest_parsed"
    /\ ~NoTitleOrDate(parsed)
    /\ ~OlderThanTwoYears(parsed, clock)
    /\ ~RawDuplicate(raw_events, parsed, posts[post_idx].handle)
    /\ raw_events' = Append(raw_events,
                            [RawRow(parsed.title, isoformat(parsed.datetime_obj.dt),
                                    parsed.location, parsed.description,
                                    posts[post_idx].handle)
                             EXCEPT !.post = post_idx])
    /\ total_inserted' = total_inserted + 1
    /\ post_idx' = post_idx + 1
    /\ pc' = "ingest"
    /\ UNCHANGED <<exits, schema, events, posts, parsed, clock, raw_unique,
                   total_processed, dedupe_vars, classify_vars>>

\* INSERT OR IGNORE INTO raw_events ignores the row: rowcount is 0.
IngestDuplicate ==
    /\ pc = "ingest_parsed"
    /\ ~NoTitleOrDate(parsed)
    /\ ~OlderThanTwoYears(parsed, clock)
    /\ RawDuplicate(raw_events, parsed, posts[post_idx].handle)
    /\ post_idx' = post_idx + 1
    /\ pc' = "ingest"
    /\ UNCHANGED <<exits, schema, raw_events, events, posts, parsed, clock, raw_unique,
                   total_inserted, total_processed, dedupe_vars, classify_vars>>

\* The loops are over: close the connection, print the summary and exit 0;
\* run_full_pipeline starts dedupe_agent.
IngestSummary ==
    /\ pc = "ingest"
    /\ post_idx > Len(posts)
    /\ pc' = "start"
    /\ exits' = [exits EXCEPT !.scripts = Append(@, 0)]
    /\ UNCHANGED <<schema, raw_events, events, ingest_vars, dedupe_vars, classify_vars>>

NextPipeline ==
    \/ IngestStart
    \/ IngestShort
    \/ IngestParse
    \/ IngestSkipUndated
    \/ IngestSkipOld
    \/ IngestInsert
    \/ IngestDuplicate
    \/ IngestSummary
    \/ DedupeStart
    \/ DedupeSkip
    \/ DedupeMerge
    \/ DedupeInsert
    \/ DedupeSummary
    \/ ClassifyStart
    \/ ClassifyRow
    \/ ClassifySummary

SpecPipeline == InitPipeline /\ [][NextPipeline]_vars

----------------------------------------------------------------------------
(* run_full_pipeline: ingest_agent, dedupe_agent, classify_agent and       *)
(* notify_agent run one after the other by run_agent, on a database that   *)
(* is fresh or holds the tables of an earlier run.  A script an uncaught   *)
(* exception ends exits with code 1.                                       *)

\* A fresh database: no events table, nothing in raw_events, which init_db
\* will create without UNIQUE.  Otherwise the tables of an earlier run, with
\* raw_events empty or holding a row of that run: one without description,
\* or one whose datetime does not parse.
InitFull ==
    /\ \/ /\ schema = [columns |-> {}, unique |-> FALSE, category_default |-> NULL]
          /\ raw_events = <<>>
          /\ raw_unique = FALSE
       \/ /\ schema \in RunnableSchemas
          /\ raw_events \in {<<>>,
                              <<RawRow("Hack Night", isoformat(DateTime(2025, 6, 4, 18, 0, 0)),
                                       "", NULL, Csbs)>>,
                              <<RawRow("Hack Night", JunkText, "Lab 2", "fun", Dsync)>>}
          /\ raw_unique \in BOOLEAN
    /\ raw_rows = <<>>
    /\ raw_idx = 1
    /\ events = <<>>
    /\ inserted_count = 0
    /\ updated_count = 0
    /\ matchers = <<>>
    /\ dedupe_runs = 0
    /\ exits = [scripts |-> <<>>, pipeline |-> <<>>]
    /\ event_rows = <<>>
    /\ event_idx = 1
    /\ category_counts = EmptyCounts
    /\ classify_runs = 0
    /\ posts \in PostLists
    /\ post_idx = 1
    /\ parsed = NoCandidate
    /\ clock = DateTime(2026, 1, 15, 12, 0, 0)
    /\ total_inserted = 0
    /\ total_processed = 0
    /\ pc = "ingest_start"

\* for-loop iteration of dedupe_raw_events on a row whose datetime parses:
\* the SELECT of find_matching_event, or the INSERT of the no-match branch,
\* names a column the events table does not have: sqlite3.OperationalError,
\* which nothing catches.
DedupeNoColumn ==
    /\ pc = "dedupe"
    /\ raw_idx <= Len(raw_rows)
    /\ parse_iso_datetime(raw_rows[raw_idx].datetime).ok
    /\ \/ ~(SelectColumns \subseteq schema.columns)
       \/ /\ SelectColumns \subseteq schema.columns
          /\ Match(raw_rows[raw_idx]) = 0
          /\ ~(InsertColumns \subseteq schema.columns)
    /\ pc' = "aborted"
    /\ exits' = [exits EXCEPT !.scripts = Append(@, 1)]
    /\ UNCHANGED <<schema, raw_events, events, dedupe_vars, classify_vars, ingest_vars>>

\* notify_agent: SELECT id, datetime, category, title, location, sources of
\* the events of tomorrow and print them; the script writes nothing.  The
\* SELECT fails when the table lacks one of its columns.
NotifyRun ==
    /\ pc = "classify_done"
    /\ IF {"id", "datetime", "category", "title", "location", "sources"} \subseteq schema.columns
       THEN /\ pc' = "notify_done"
            /\ exits' = [exits EXCEPT !.scripts = Append(@, 0)]
       ELSE /\ pc' = "aborted"
            /\ exits' = [exits EXCEPT !.scripts = Append(@, 1)]
    /\ UNCHANGED <<schema, raw_events, events, dedupe_vars, classify_vars, ingest_vars>>

\* run_agent that exits with 0 whatever the script returned.
PipelineExit_with_zero ==
    /\ pc = "aborted"
    /\ pc' = "pipeline_exit"
    /\ exits' = [exits EXCEPT !.pipeline = <<0>>]
    /\ UNCHANGED <<schema, raw_events, events, dedupe_vars, classify_vars, ingest_vars>>

\* run_agent: result.returncode != 0, sys.exit(result.returncode).
PipelineExit ==
    /\ pc = "aborted"
    /\ pc' = "pipeline_exit"
    /\ exits' = [exits EXCEPT !.pipeline = <<exits.scripts[Len(exits.scripts)]>>]
    /\ UNCHANGED <<schema, raw_events, events, dedupe_vars, classify_vars, ingest_vars>>

\* The last run_agent returned: "All steps completed!", exit status 0.
PipelineDone ==
    /\ pc = "notify_done"
    /\ pc' = "pipeline_done"
    /\ exits' = [exits EXCEPT !.pipeline = <<0>>]
    /\ UNCHANGED <<schema, raw_events, events, dedupe_vars, classify_vars, ingest_vars>>

NextFull ==
    \/ IngestStart
    \/ IngestShort
    \/ IngestParse
    \/ IngestSkipUndated
    \/ IngestSkipOld
    \/ IngestInsert
    \/ IngestDuplicate
    \/ IngestSummary
    \/ DedupeStart
    \/ DedupeSkip
    \/ DedupeMerge
    \/ DedupeInsert
    \/ DedupeAbort
    \/ DedupeNoColumn
    \/ DedupeSummary
    \/ ClassifyStart
    \/ ClassifyRow
    \/ ClassifySummary
    \/ NotifyRun
    \/ PipelineExit
    \/ PipelineDone

SpecFull == InitFull /\ [][NextFull]_vars

----------------------------------------------------------------------------
(* parse_caption called on one caption, and called again later *)

\* The captions of PostChoices; the empty caption, a blank one and one of
\* blank lines; a title, a date without a year, a time and a venue line, and
\* the same with the venue above the time; a
\* caption with a description line under the venue; captions of greetings
\* only; a venue line above the date line; a time without any date; a time
\* text no format of combine_date_time parses.
CaptionChoices ==
    {p.caption : p \in {q \in PostChoices : q.caption # NULL}}
    \cup {"", "   ", "\n \n",
          "* Hack Night\n# Date: 3rd June\n@ Time: 6 PM\n^ Venue: Lab 2",
          "* Hack Night\n# Date: 3rd June\n^ Venue: Lab 2\n@ Time: 6 PM",
          "* Hack Night\n^ Venue: Lab 2\nbring laptops\n# Date: 3rd June",
          "Hi", "Hello\nHi all",
          "Hack Night\nVenue: Lab 2\nDate: 3rd June\nbring laptops",
          "Movie Night at 7 PM in the quad, bring snacks",
          "Quiz Night\nDate: 3rd June\nTime: 6PM",
       "Fest Week\nDate: TBA\nMusic Night\nDate: 3rd June"}

\* datetime.now() at the calls: two moments of 2025, one of 2026.
Clocks == {June2025, DateTime(2025, 12, 20, 9, 0, 0), DateTime(2026, 1, 15, 12, 0, 0)}

InitParse ==
    /\ schema \in {sch \in RunnableSchemas : sch.unique}
    /\ raw_events = <<>>
    /\ raw_rows = <<>>
    /\ raw_idx = 1
    /\ events = <<>>
    /\ inserted_count = 0
    /\ updated_count = 0
    /\ matchers = <<>>
    /\ dedupe_runs = 0
    /\ exits = [scripts |-> <<>>, pipeline |-> <<>>]
    /\ event_rows = <<>>
    /\ event_idx = 1
    /\ category_counts = EmptyCounts
    /\ classify_runs = 0
    /\ posts \in {<<Post(Dsync, c)>> : c \in CaptionChoices}
    /\ post_idx = 1
    /\ parsed = NoCandidate
    /\ clock \in Clocks
    /\ raw_unique = FALSE
    /\ total_inserted = 0
    /\ total_processed = 0
    /\ pc = "parse_start"

\* parse_caption(caption) at datetime.now() = clock.
ParseCall ==
    /\ pc = "parse_start"
    /\ parsed' = parse_caption(posts[1].caption, clock)
    /\ pc' = "parse_done"
    /\ UNCHANGED <<exits, schema, raw_events, events, posts, post_idx, clock, raw_unique,
                   total_inserted, total_processed, dedupe_vars, classify_vars>>

\* parse_caption(caption) once more, at the same or a later datetime.now().
ParseAgain ==
    /\ pc = "parse_done"
    /\ \E later \in Clocks :
          /\ total_seconds(later, clock) >= 0
          /\ clock' = later
          /\ parsed' = parse_caption(posts[1].caption, later)
    /\ pc' = "parse_again"
    /\ UNCHANGED <<exits, schema, raw_events, events, posts, post_idx, raw_unique,
                   total_inserted, total_processed, dedupe_vars, classify_vars>>

NextParse ==
    \/ ParseCall
    \/ ParseAgain

SpecParse == InitParse /\ [][NextParse]_vars

----------------------------------------------------------------------------
(* dedupe_raw_events over rows some of which carry no description *)

\* raw_events.description is nullable.  Rows with and without description
\* for one event, a row of another event, a row whose datetime does not parse.
InitBatch ==
    /\ schema \in RunnableSchemas
    /\ raw_events \in SeqsUpTo(
           {RawRow("Hack Night", At(10, 0, 0), "Lab 2", "fun", Dsync),
            RawRow("Hack Night", At(10, 0, 0), "Lab 2", NULL, Csbs),
            RawRow("Jazz Concert", At(10, 0, 0), "Lab 2", "fun", Dsync),
            RawRow("Hack Night", JunkText, "Lab 2", "fun", Dsync)},
           MaxRows)
    /\ raw_rows = <<>>
    /\ raw_idx = 1
    /\ events = <<>>
    /\ inserted_count = 0
    /\ updated_count = 0
    /\ matchers = <<>>
    /\ dedupe_runs = 0
    /\ exits = [scripts |-> <<>>, pipeline |-> <<>>]
    /\ event_rows = <<>>
    /\ event_idx = 1
    /\ category_counts = EmptyCounts
    /\ classify_runs = 0
    /\ posts = <<>>
    /\ post_idx = 1
    /\ parsed = NoCandidate
    /\ clock = June2025
    /\ raw_unique = FALSE
    /\ total_inserted = 0
    /\ total_processed = 0
    /\ pc = "start"

NextBatch ==
    \/ DedupeStart
    \/ DedupeSkip
    \/ DedupeMerge
    \/ DedupeInsert
    \/ DedupeAbort
    \/ DedupeSummary

SpecBatch == InitBatch /\ [][NextBatch]_vars

----------------------------------------------------------------------------
(* dedupe_raw_events on a database whose events table already holds rows.  *)
(* The table outlives the run and its datetime column is plain TEXT, so a  *)
(* row written before the run may carry a text fromisoformat() rejects.    *)

\* A row of the events table written before the run.
Stored(dt, desc) ==
    [title |-> "Hack Night", datetime |-> dt, location |-> "Lab 2", description |-> desc,
     sources |-> Dsync, category |-> NULL, members |-> {}]

\* Up to two of: a row whose datetime does not parse, a row at 09:56:00 and a
\* row at 10:03:00, in any order; candidates at 10:00:00 (within 5 minutes of
\* both dated rows) and at 10:10:00 (of neither), a candidate of another
\* title and a candidate whose own datetime does not parse.
InitStored ==
    /\ schema \in RunnableSchemas
    /\ \E stored \in SeqsUpTo({Stored(JunkText, "old"), Stored(At(9, 56, 0), "fun"),
                              Stored(At(10, 3, 0), "fun")}, 2) :
          /\ \A a, b \in 1..Len(stored) : stored[a] = stored[b] => a = b
          /\ events = [k \in 1..Len(stored) |-> [id |-> k] @@ stored[k]]
    /\ raw_events \in SeqsUpTo(
           {RawRow("Hack Night", At(10, 0, 0), "Lab 2", "hackathon", Csbs),
            RawRow("Hack Night", At(10, 10, 0), "Lab 2", "fun", Dsync),
            RawRow("Jazz Concert", At(10, 0, 0), "Lab 2", "fun", Dsync),
            RawRow("Hack Night", JunkText, "Lab 2", "fun", Dsync)},
           MaxRows)
    /\ raw_rows = <<>>
    /\ raw_idx = 1
    /\ inserted_count = 0
    /\ updated_count = 0
    /\ matchers = <<>>
    /\ dedupe_runs = 0
    /\ exits = [scripts |-> <<>>, pipeline |-> <<>>]
    /\ event_rows = <<>>
    /\ event_idx = 1
    /\ category_counts = EmptyCounts
    /\ classify_runs = 0
    /\ posts = <<>>
    /\ post_idx = 1
    /\ parsed = NoCandidate
    /\ clock = June2025
    /\ raw_unique = FALSE
    /\ total_inserted = 0
    /\ total_processed = 0
    /\ pc = "start"

NextStored ==
    \/ DedupeStart
    \/ DedupeSkip
    \/ DedupeMerge
    \/ DedupeInsert
    \/ DedupeSummary

SpecStored == InitStored /\ [][NextStored]_vars

----------------------------------------------------------------------------
(* dedupe_raw_events run again over the same raw_events.  The script does  *)
(* not mark or delete the rows it has consolidated: every run fetches all  *)
(* of raw_events.                                                          *)

\* A row at 10:05:00, a row of another source 3 minutes before it, a row
\* 7 minutes before it, a row with no location, a row whose datetime does
\* not parse.
InitRerun ==
    /\ schema \in RunnableSchemas
    /\ raw_events \in SeqsUpTo(
           {RawRow("Hack Night", At(10, 5, 0), "Lab 2", "fun", Dsync),
            RawRow("Hack Night", At(10, 2, 0), "Lab 2", "hackathon", Csbs),
            RawRow("Hack Night", At(9, 58, 0), "Lab 2", "fun", Dsync),
            RawRow("Hack Night", At(10, 5, 0), NULL, "fun", Csbs),
            RawRow("Hack Night", JunkText, "Lab 2", "fun", Dsync)},
           MaxRows)
    /\ raw_rows = <<>>
    /\ raw_idx = 1
    /\ events = <<>>
    /\ inserted_count = 0
    /\ updated_count = 0
    /\ matchers = <<>>
    /\ dedupe_runs = 0
    /\ exits = [scripts |-> <<>>, pipeline |-> <<>>]
    /\ event_rows = <<>>
    /\ event_idx = 1
    /\ category_counts = EmptyCounts
    /\ classify_runs = 0
    /\ posts = <<>>
    /\ post_idx = 1
    /\ parsed = NoCandidate
    /\ clock = June2025
    /\ raw_unique = FALSE
    /\ total_inserted = 0
    /\ total_processed = 0
    /\ pc = "start"

\* The script is started again on the same database.
DedupeAgain ==
    /\ pc = "dedupe_done"
    /\ dedupe_runs < MaxRuns
    /\ pc' = "start"
    /\ UNCHANGED <<exits, schema, raw_events, events, dedupe_vars, classify_vars, ingest_vars>>

NextRerun ==
    \/ DedupeStart
    \/ DedupeSkip
    \/ DedupeMerge
    \/ DedupeInsert
    \/ DedupeSummary
    \/ DedupeAgain

SpecRerun == InitRerun /\ [][NextRerun]_vars

----------------------------------------------------------------------------
(* Two runs of dedupe_raw_events side by side on one database.  Each run   *)
(* has its own connection and its own fetched rows; the SELECT of          *)
(* find_matching_event and the INSERT or UPDATE with its commit are        *)
(* separate statements, each atomic in SQLite, and nothing holds a lock    *)
(* between them.                                                           *)

\* Both runs have connected and fetched the rows of raw_events: two rows of
\* one event five minutes apart, from two handles, and a row whose datetime
\* does not parse.
InitRace ==
    /\ schema \in RunnableSchemas
    /\ raw_events \in SeqsUpTo(
           {RawRow("Hack Night", At(10, 0, 0), "Lab 2", "fun", Dsync),
            RawRow("Hack Night", At(10, 5, 0), "Lab 2", "hackathon", Csbs),
            RawRow("Hack Night", JunkText, "Lab 2", "fun", Dsync)},
           MaxRows)
    /\ raw_rows = <<>>
    /\ raw_idx = 1
    /\ events = <<>>
    /\ inserted_count = 0
    /\ updated_count = 0
    /\ matchers = [m \in {1, 2} |->
                      [pc |-> "lookup", raw_rows |-> raw_events, raw_idx |-> 1,
                       match |-> 0, existing_sources |-> "", existing_desc |-> "",
                       inserted_count |-> 0, updated_count |-> 0]]
    /\ dedupe_runs = 0
    /\ exits = [scripts |-> <<>>, pipeline |-> <<>>]
    /\ event_rows = <<>>
    /\ event_idx = 1
    /\ category_counts = EmptyCounts
    /\ classify_runs = 0
    /\ posts = <<>>
    /\ post_idx = 1
    /\ parsed = NoCandidate
    /\ clock = June2025
    /\ raw_unique = FALSE
    /\ total_inserted = 0
    /\ total_processed = 0
    /\ pc = "race"

\* Run m, top of a for-loop iteration: skip the row when its datetime does
\* not parse, else SELECT the match and keep what the SELECT returned.
MatcherLookup(m) ==
    LET self == matchers[m]
        row == self.raw_rows[self.raw_idx]
        match == Match(row)
    IN  /\ self.pc = "lookup"
        /\ self.raw_idx <= Len(self.raw_rows)
        /\ SelectColumns \subseteq schema.columns
        /\ matchers' = [matchers EXCEPT ![m] =
              IF ~parse_iso_datetime(row.datetime).ok
              THEN [self EXCEPT !.raw_idx = @ + 1]
              ELSE [self EXCEPT !.pc = "write",
                                !.match = match,
                                !.existing_sources = IF match # 0 THEN events[match].sources ELSE "",
                                !.existing_desc = IF match # 0 THEN events[match].description ELSE ""]]
        /\ UNCHANGED <<exits, schema, raw_events, events, raw_rows, raw_idx, inserted_count,
                       updated_count, dedupe_runs, classify_vars, ingest_vars, pc>>

\* Run m, rest of the iteration: UPDATE the matched row from the sources and
\* description the SELECT returned, or INSERT a new row, and commit; an
\* INSERT that violates the UNIQUE index raises sqlite3.IntegrityError, which
\* nothing catches.
MatcherWrite(m) ==
    LET self == matchers[m]
        row == self.raw_rows[self.raw_idx]
        as_selected == [events EXCEPT ![self.match] =
                           [@ EXCEPT !.sources = self.existing_sources,
                                     !.description = self.existing_desc]]
    IN  /\ self.pc = "write"
        /\ \/ /\ self.match # 0
              /\ events' = MergeInto(as_selected, self.match, row, self.raw_idx)
              /\ matchers' = [matchers EXCEPT ![m] =
                    [self EXCEPT !.pc = "lookup", !.raw_idx = @ + 1, !.updated_count = @ + 1]]
           \/ /\ self.match = 0
              /\ InsertColumns \subseteq schema.columns
              /\ ~UniqueViolated(events, schema, row)
              /\ events' = InsertNew(events, schema, row, self.raw_idx)
              /\ matchers' = [matchers EXCEPT ![m] =
                    [self EXCEPT !.pc = "lookup", !.raw_idx = @ + 1, !.inserted_count = @ + 1]]
           \/ /\ self.match = 0
              /\ InsertColumns \subseteq schema.columns
              /\ UniqueViolated(events, schema, row)
              /\ matchers' = [matchers EXCEPT ![m] = [self EXCEPT !.pc = "aborted"]]
              /\ UNCHANGED events
        /\ exits' = IF self.match = 0 /\ UniqueViolated(events, schema, row)
                    THEN [exits EXCEPT !.scripts = Append(@, 1)]
                    ELSE exits
        /\ UNCHANGED <<schema, raw_events, raw_rows, raw_idx, inserted_count,
                       updated_count, dedupe_runs, classify_vars, ingest_vars, pc>>

\* Run m: the loop is over, close the connection and print the summary.
MatcherSummary(m) ==
    /\ matchers[m].pc = "lookup"
    /\ matchers[m].raw_idx > Len(matchers[m].raw_rows)
    /\ matchers' = [matchers EXCEPT ![m] = [@ EXCEPT !.pc = "done"]]
    /\ exits' = [exits EXCEPT !.scripts = Append(@, 0)]
    /\ UNCHANGED <<schema, raw_events, events, raw_rows, raw_idx, inserted_count,
                   updated_count, dedupe_runs, classify_vars, ingest_vars, pc>>

NextRace ==
    \E m \in {1, 2} :
        \/ MatcherLookup(m)
        \/ MatcherWrite(m)
        \/ MatcherSummary(m)

SpecRace == InitRace /\ [][NextRace]_vars

----------------------------------------------------------------------------
(* classify_events run, and run again, over the registry a run of          *)
(* dedupe_raw_events has left                                              *)

\* Rows whose text holds a Technical and, in a second fragment, a Career
\* keyword; "workshop" as the only keyword; a Cultural keyword in the title;
\* no keyword; keywords only inside longer words; a Sports and a Social
\* keyword; a keyword in capitals.
InitClassify ==
    /\ schema \in RunnableSchemas
    /\ raw_events \in SeqsUpTo(
           {RawRow(e[1], At(10, 0, 0), "Lab 2", e[2], Dsync) :
               e \in {<<"Hack Night", "hackathon">>, <<"Hack Night", "internship fair">>,
                      <<"Pottery", "a workshop">>, <<"Jazz Concert", "fun">>,
                      <<"Quiz", "fun">>, <<"Workshops", "hackathons">>,
                      <<"Alumni Mixer", "cricket match">>, <<"AI Meetup", "">>}},
           MaxRows)
    /\ raw_rows = raw_events
    /\ raw_idx = Len(raw_events) + 1
    /\ events = DedupeFrom(<<>>, schema, raw_events, [k \in 1..Len(raw_events) |-> k])
    /\ inserted_count = Len(events)
    /\ updated_count = Len(raw_events) - Len(events)
    /\ matchers = <<>>
    /\ dedupe_runs = 0
    /\ exits = [scripts |-> <<>>, pipeline |-> <<>>]
    /\ event_rows = <<>>
    /\ event_idx = 1
    /\ category_counts = EmptyCounts
    /\ classify_runs = 0
    /\ posts = <<>>
    /\ post_idx = 1
    /\ parsed = NoCandidate
    /\ clock = June2025
    /\ raw_unique = FALSE
    /\ total_inserted = 0
    /\ total_processed = 0
    /\ pc = "dedupe_done"

\* classify_agent.py is started once more over the same database.
ClassifyAgain ==
    /\ pc = "classify_done"
    /\ classify_runs < MaxRuns
    /\ pc' = "dedupe_done"
    /\ UNCHANGED <<exits, schema, raw_events, events, dedupe_vars, classify_vars, ingest_vars>>

NextClassify ==
    \/ ClassifyStart
    \/ ClassifyRow
    \/ ClassifySummary
    \/ ClassifyAgain

SpecClassify == InitClassify /\ [][NextClassify]_vars

----------------------------------------------------------------------------
(* Vocabulary of the properties *)

Range(q) == {q[k] : k \in 1..Len(q)}

NoDuplicates(q) == \A a, b \in 1..Len(q) : q[a] = q[b] => a = b

Dated(row) == parse_iso_datetime(row.datetime).ok

\* |t(a) - t(b)| in seconds, for two dated rows or records.
Apart(a, b) == abs(total_seconds(a.datetime.dt, b.datetime.dt))

Orders(n) == {p \in [1..n -> 1..n] : \A a, b \in 1..n : p[a] = p[b] => a = b}

\* Which raw rows were folded into which record.
Grouping(evs) == {evs[k].members : k \in 1..Len(evs)}

SourceSet(ev) == Range(SourceList(ev.sources))

FragmentSet(ev) == Range(DescList(ev.description))

\* The rows are dated, share title and a present (possibly empty) location,
\* and are pairwise at most 5 minutes apart.
OneCluster(rows) ==
    /\ \A k \in 1..Len(rows) : Dated(rows[k]) /\ rows[k].location # NULL
    /\ \A a, b \in 1..Len(rows) :
          /\ rows[a].title = rows[b].title
          /\ rows[a].location = rows[b].location
          /\ Apart(rows[a], rows[b]) <= 300

----------------------------------------------------------------------------
(* C1 *)

----------------------------------------------------------------------------
(* C2 *)

----------------------------------------------------------------------------
(* C3 *)

----------------------------------------------------------------------------
(* C4 *)

\* The registry the loop builds from raw_rows taken in order p.
RegistryOf(p) == DedupeFrom(<<>>, schema, raw_rows, p)

ClustersSeparated(rows) ==
    /\ \A k \in 1..Len(rows) : Dated(rows[k]) => rows[k].location # NULL
    /\ \A a, b, c \in 1..Len(rows) :
          (/\ Dated(rows[a]) /\ Dated(rows[b]) /\ Dated(rows[c])
           /\ rows[a].title = rows[b].title /\ rows[b].title = rows[c].title
           /\ rows[a].location = rows[b].location /\ rows[b].location = rows[c].location
           /\ Apart(rows[a], rows[b]) <= 300
           /\ Apart(rows[b], rows[c]) <= 300)
          => Apart(rows[a], rows[c]) <= 300

----------------------------------------------------------------------------
(* C5 *)

----------------------------------------------------------------------------
(* C6 *)

\* C6: in every reachable state the sources list of every canonical record
\* holds no source identifier more than once.
C6_SourcesDuplicateFree ==
    \A k \in 1..Len(events) : NoDuplicates(SourceList(events[k].sources))

\* One source has contributed two candidates to a record that holds two sources.
C6_Witness ==
    \E k \in 1..Len(events) :
        /\ Cardinality(events[k].members) = 3
        /\ Cardinality(SourceSet(events[k])) = 2

----------------------------------------------------------------------------
(* C7 *)

\* The raw rows consolidated so far: the dated rows before the loop position.
Consolidated == {k \in 1..Len(raw_rows) : k < raw_idx /\ Dated(raw_rows[k])}

\* C7: the source_id of every consolidated candidate is in the sources list
\* of the record it was inserted as or merged into, in every later state, and
\* the union of all records' sources is the set of source_ids of the
\* consolidated candidates.
C7_ProvenanceComplete ==
    /\ \A k \in Consolidated :
          \E e \in 1..Len(events) :
              /\ k \in events[e].members
              /\ raw_rows[k].source \in SourceSet(events[e])
    /\ UNION {SourceSet(events[e]) : e \in 1..Len(events)}
         = {raw_rows[k].source : k \in Consolidated}

\* A record into which a second source was merged, followed by one more
\* consolidation.
C7_Witness ==
    /\ Cardinality(Consolidated) = 3
    /\ \E e \in 1..Len(events) :
          /\ Cardinality(SourceSet(events[e])) = 2
          /\ 3 \notin events[e].members
          /\ Cardinality(events[e].members) = 2

----------------------------------------------------------------------------
(* C8 *)

----------------------------------------------------------------------------
(* C9 *)

\* No date can be resolved from the caption: no line carries a date marker
\* whose text parses as a date, and the text holds no free-form date.
NoDateResolvable(caption_text, now) ==
    /\ FindDateLine(LinesOf(caption_text), 1, now).idx = 0
    /\ ~extract_date_from_text(caption_text, now).ok

\* The raw row was written for a post no date can be resolved from (post is 0
\* on a row of an earlier run).
OfUndatedPost(row) ==
    row.post # 0 /\ NoDateResolvable(CaptionOf(posts[row.post]), clock)

\* C9: a caption no date can be resolved from yields a candidate with absent
\* occurs_at; the candidate is never written to raw_events and no canonical
\* record is made of it or merged with it (a record is only made of raw rows
\* whose datetime parses).
C9_UndatedNeverRegistered ==
    /\ (pc = "ingest_parsed" /\ NoDateResolvable(CaptionOf(posts[post_idx]), clock))
          => ~parsed.datetime_obj.ok
    /\ \A r \in 1..Len(raw_events) : ~OfUndatedPost(raw_events[r])
    /\ \A e \in 1..Len(events) : \A m \in events[e].members :
          Dated(raw_rows[m]) /\ ~OfUndatedPost(raw_rows[m])

\* The pipeline has run over two captions of 20 characters or more, a title
\* found in both: the one without a date is in no raw row and in no record,
\* the other one is in both.
C9_Witness ==
    /\ pc = "classify_done"
    /\ Len(posts) = 2
    /\ NoDateResolvable(CaptionOf(posts[1]), clock)
    /\ ~NoDateResolvable(CaptionOf(posts[2]), clock)
    /\ Len(strip(CaptionOf(posts[1]))) >= 20
    /\ parse_caption(CaptionOf(posts[1]), clock).title # ""
    /\ \E r \in 1..Len(raw_events) : raw_events[r].post = 2
    /\ \E e \in 1..Len(events) : \E m \in events[e].members : raw_rows[m].post = 2

----------------------------------------------------------------------------
(* C10 *)

\* C10: after classify_events has run over the registry, the category of
\* every canonical record is one of Technical, Cultural, Sports, Career,
\* Social, Other, and is not empty or absent.
C10_CategoryInClosedSet ==
    pc = "classify_done"
    => \A k \in 1..Len(events) :
          /\ events[k].category \in Categories
          /\ events[k].category # NULL
          /\ events[k].category # ""

\* The pipeline has classified two records, one by a keyword and one by the
\* fallback.
C10_Witness ==
    /\ pc = "classify_done"
    /\ Len(events) = 2
    /\ \E a, b \in 1..Len(events) :
          /\ events[a].category = Other
          /\ events[b].category \in Categories \ {Other}

----------------------------------------------------------------------------
(* Claims on classify_events *)

\* The families in the order the claim declares them.
DeclaredOrder == <<"Technical", "Cultural", "Sports", "Career", "Social">>

\* word occurs in the case-folded text as a whole word, letter case aside:
\* an occurrence with no word character right before it and none right after.
WholeWord(folded, word) ==
    LET w == lower(word)
    IN  \E p \in 1..(Len(folded) - Len(w) + 1) :
            /\ SubSeq(folded, p, p + Len(w) - 1) = w
            /\ p = 1 \/ Ch(folded, p - 1) \notin WordChars
            /\ p + Len(w) > Len(folded) \/ Ch(folded, p + Len(w)) \notin WordChars

KeywordsOf(name) ==
    (CHOOSE f \in Range(CATEGORY_KEYWORDS) : f.category = name).keywords

FamilyHasWord(name, folded) == \E w \in Range(KeywordsOf(name)) : WholeWord(folded, w)

\* The positions in the declared order of the families with a whole-word
\* keyword in the text.
FamiliesIn(folded) ==
    {i \in 1..Len(DeclaredOrder) : FamilyHasWord(DeclaredOrder[i], folded)}

\* Every keyword occurring in the text as a whole word is "workshop".
OnlyWorkshop(folded) ==
    /\ WholeWord(folded, "workshop")
    /\ \A i \in 1..Len(DeclaredOrder) : \A w \in Range(KeywordsOf(DeclaredOrder[i])) :
           WholeWord(folded, w) => w = "workshop"

\* The title+description text of a record, case-folded.
TextOf(ev) == lower(FormatText(ev.title) \o "\n" \o FormatText(ev.description))

\* C11: once classify_events has run, every record carries the first family,
\* in the order Technical, Cultural, Sports, Career, Social, that has a keyword
\* occurring as a whole word in its title+description text, and Other exactly
\* when no family has one; a text with both "hackathon" and "internship" is
\* Technical, and a text whose only keyword is "workshop" is Technical.
C11_FirstFamilyInDeclaredOrder ==
    pc = "classify_done"
    => \A k \in 1..Len(events) :
          LET text == TextOf(events[k])
              families == FamiliesIn(text)
          IN  /\ families # {} => events[k].category = DeclaredOrder[SetMin(families)]
              /\ families = {} <=> events[k].category = Other
              /\ WholeWord(text, "hackathon") /\ WholeWord(text, "internship")
                  => events[k].category = "Technical"
              /\ OnlyWorkshop(text) => events[k].category = "Technical"

\* A finished run over a registry holding a record with both "hackathon" and
\* "internship", classified Technical, and a record whose only keyword is
\* "workshop", classified Technical.
C11_Witness ==
    /\ pc = "classify_done"
    /\ \E k \in 1..Len(events) :
          /\ WholeWord(TextOf(events[k]), "hackathon")
          /\ WholeWord(TextOf(events[k]), "internship")
          /\ events[k].category = "Technical"
    /\ \E k \in 1..Len(events) :
          /\ events[k].title = "Pottery"
          /\ events[k].category = "Technical"

\* C12: classification is idempotent: once classify_events has finished a
\* run, no step of a later run over the same titles and descriptions changes
\* the category of any record, so classify_text gave each text the category
\* it gave before.
C12_RerunKeepsCategories ==
    [][classify_runs >= 1
       => /\ Len(events') = Len(events)
          /\ \A k \in 1..Len(events) :
                /\ events'[k].category = events[k].category
                /\ events'[k].title = events[k].title
                /\ events'[k].description = events[k].description]_vars

\* A second run has finished over a registry that holds a Technical, a
\* Cultural and an Other record, and its tally counts them.
C12_Witness ==
    /\ pc = "classify_done"
    /\ classify_runs = 2
    /\ Len(events) = 3
    /\ {events[k].category : k \in 1..Len(events)} = {"Technical", "Cultural", Other}
    /\ category_counts["Technical"] = 1
    /\ category_counts["Cultural"] = 1
    /\ category_counts[Other] = 1

----------------------------------------------------------------------------
(* Claims on parse_caption *)

Returned == pc \in {"parse_done", "parse_again"}

\* The example caption: an emoji-prefixed title line, a labeled date line
\* without a year, a labeled time line and a labeled venue line.
ExampleCaption == "* Hack Night\n# Date: 3rd June\n@ Time: 6 PM\n^ Venue: Lab 2"

\* C13: for every caption, the empty one and the blank ones included,
\* parse_caption returns a non-empty title.
C13_TitleNeverEmpty == Returned => parsed.title # ""

\* C14: the example caption (title line, "Date: 3rd June", "Time: 6 PM",
\* "Venue: Lab 2") parses to the title "Hack Night", 3 June of the current
\* year at 18:00 and the location "Lab 2".
C14_ExampleParses ==
    Returned /\ posts[1].caption = ExampleCaption
    => /\ parsed.title = "Hack Night"
       /\ parsed.datetime_obj = Some(DateTime(clock.year, 6, 3, 18, 0, 0))
       /\ parsed.location = "Lab 2"

\* C15 as stated: a second call on the same caption returns what the first
\* call returned, whenever it is made.
C15_SameResultWhenever ==
    [][pc = "parse_done" /\ pc' = "parse_again" => parsed' = parsed]_vars

\* C15, amended: a second call on the same caption made in the same calendar
\* year returns what the first call returned.
C15_SameResultWithinYear ==
    [][pc = "parse_done" /\ pc' = "parse_again" /\ clock'.year = clock.year
       => parsed' = parsed]_vars

\* The example caption, whose date names no year, has been parsed in June
\* and again in December of 2025, to 3 June 2025 both times.
C15_Witness ==
    /\ pc = "parse_again"
    /\ posts[1].caption = ExampleCaption
    /\ clock = DateTime(2025, 12, 20, 9, 0, 0)
    /\ parsed.datetime_obj = Some(DateTime(2025, 6, 3, 18, 0, 0))

\* The positions of the lines taken in a role: the line above the date line
\* when it gives the title, the first line with a time marker, the first
\* line with a venue marker.
RoleLines(lines, now) ==
    LET idx == FindDateLine(lines, 1, now).idx
    IN  (IF TitleAboveDate(lines, idx) # "" THEN {idx - 1} ELSE {})
        \cup {i \in 1..Len(lines) :
                /\ time_patterns(lines[i]).ok
                /\ \A j \in 1..(i - 1) : ~time_patterns(lines[j]).ok}
        \cup {i \in 1..Len(lines) :
                /\ venue_patterns(lines[i]).ok
                /\ \A j \in 1..(i - 1) : ~venue_patterns(lines[j]).ok}

\* C23: the description is made of every non-empty line that is not taken as
\* the title-above-date line, as the time line or as the location line, in
\* order and joined by single blanks, wherever the line stands; when no line
\* remains it is the caption, cut to 200 characters.
C23_RemainingLinesDescribed ==
    Returned /\ LinesOf(posts[1].caption) # <<>>
    => LET lines == LinesOf(posts[1].caption)
           roles == RoleLines(lines, clock)
           keep(ln) == \E i \in 1..Len(lines) : i \notin roles /\ lines[i] = ln
           remaining == [k \in 1..Cardinality((1..Len(lines)) \ roles) |->
                            lines[CHOOSE i \in (1..Len(lines)) \ roles :
                                    Cardinality({j \in (1..i) \ roles : TRUE}) = k]]
       IN  parsed.description = DescriptionOf(posts[1].caption, remaining)

\* The first line a date pattern matches, whatever its text: its position,
\* 0 when there is none.
FirstMarkedLine(lines) == First({i \in 1..Len(lines) : date_patterns(lines[i]).ok})

\* C25: the title is the result of the first rule to succeed among (a) the
\* line before the first line carrying a date marker, (b) an announcement
\* phrasing, (c) the first candidate of length 3 to 59 among the lines that
\* are neither greeting nor filler, (d) the first non-greeting line, (e) the
\* placeholder "Event".
C25_TitleByFirstRule ==
    Returned /\ LinesOf(posts[1].caption) # <<>>
    => LET lines == LinesOf(posts[1].caption)
       IN  parsed.title =
             OrElse(TitleAboveDate(lines, FirstMarkedLine(lines)),
               OrElse(AnnouncedTitle(lines),
                 OrElse(FirstShortCandidate(CleanEach(SelectSeq(lines, IsCandidate))),
                   OrElse(FirstNonGreeting(lines), "Event"))))

\* The date the parser resolves for the caption: the date of the first line
\* with a date marker, or else the first free-form date of the caption.
ResolvedDate(caption_text, now) ==
    LET marked == FindDateLine(LinesOf(caption_text), 1, now)
    IN  IF marked.idx # 0 THEN marked.date_obj ELSE extract_date_from_text(caption_text, now)

\* The time the parser resolves for the caption: the time text of the first
\* time line step 6 reaches, or else the first free-form time of the caption,
\* read under the formats of combine_date_time; None when there is no such
\* text or no format reads it.
ResolvedTime(caption_text, now) ==
    LET lines == LinesOf(caption_text)
        idx == FindDateLine(lines, 1, now).idx
        got == Gather(lines, 1, SkippedLine(lines, idx, TitleOf(lines, idx)),
                      [event_time_str |-> "", location |-> "", description_parts |-> <<>>])
        text == IF got.event_time_str # "" THEN got.event_time_str
                ELSE extract_time_from_text(caption_text)
    IN  IF text = "" THEN None ELSE FirstParse(strip(text), TimeFormats)

----------------------------------------------------------------------------
(* Claims on dedupe_raw_events: uniqueness, failures, frame *)

MatchPredicate(ev, row) ==
    /\ ev.title = row.title
    /\ OrEmpty(ev.location) = OrEmpty(row.location)
    /\ Apart(ev, row) <= 300

\* C17: a failure on one item never aborts the batch: the run over a list of
\* candidates is never cut short before its summary.
C17_BatchNeverAborts == pc # "aborted"

C19_MergeFrame ==
    [][pc = "dedupe" /\ updated_count' = updated_count + 1
       => /\ Len(events') = Len(events)
          /\ \E m \in 1..Len(events) :
                /\ MatchPredicate(events[m], raw_rows[raw_idx])
                /\ events'[m].id = events[m].id
                /\ events'[m].title = events[m].title
                /\ events'[m].location = events[m].location
                /\ events'[m].datetime = events[m].datetime
                /\ events'[m].category = events[m].category
                /\ \A k \in 1..Len(events) : k # m => events'[k] = events[k]]_vars

\* A candidate five minutes later than the record it matched has been merged
\* into it while the registry held another record as well.
C19_Witness ==
    /\ pc = "dedupe"
    /\ updated_count >= 1
    /\ Len(events) = 2
    /\ \E m \in 1..Len(events) : \E k \in events[m].members :
          /\ raw_rows[k].datetime # events[m].datetime
          /\ Apart(raw_rows[k], events[m]) = 300

----------------------------------------------------------------------------
(* Claims on find_matching_event: rows the search passes over *)

Matching(row) ==
    {k \in 1..Len(events) : Dated(events[k]) /\ MatchPredicate(events[k], row)}

\* The first of the records M in the order the storage is scanned: by
\* (datetime, id) where the table carries the UNIQUE index, by id otherwise.
ScanFirst(M) ==
    IF schema.unique
    THEN CHOOSE k \in M : \A j \in M \ {k} :
            \/ IsoTextLess(events[k].datetime.dt, events[j].datetime.dt)
            \/ events[k].datetime = events[j].datetime /\ k < j
    ELSE SetMin(M)

----------------------------------------------------------------------------
(* Claims on dedupe_raw_events: a second run *)

----------------------------------------------------------------------------
(* Claims on run_full_pipeline and on the events table it runs on *)

\* How many scripts have ended, each with exit code 0, when control is at c:
\* none while ingest_agent runs, one while dedupe_agent runs, and so on.
EndedBefore(c) ==
    CASE c \in {"ingest_start", "ingest", "ingest_parsed"} -> 0
      [] c \in {"start", "dedupe"} -> 1
      [] c \in {"dedupe_done", "classify"} -> 2
      [] c = "classify_done" -> 3
      [] c \in {"notify_done", "pipeline_done"} -> 4

\* Every row of raw_events has been through the loop of dedupe_raw_events,
\* and every dated one is in a record.
AllConsolidated ==
    /\ raw_rows = raw_events
    /\ raw_idx = Len(raw_rows) + 1
    /\ \A r \in 1..Len(raw_rows) :
          Dated(raw_rows[r]) => \E e \in 1..Len(events) : r \in events[e].members

\* C26: the scripts run in the order ingest, dedupe, classify, notify, each
\* started only when every script before it has ended with exit code 0; no
\* record is classified before every candidate has been consolidated; once a
\* script has ended with a non-zero code no script runs and nothing is
\* written any more, and the pipeline exits with that code.
C26_StagesInOrder ==
    /\ [](/\ pc \notin {"aborted", "pipeline_exit"}
             => exits.scripts = [k \in 1..EndedBefore(pc) |-> 0]
          /\ pc \in {"aborted", "pipeline_exit"}
             => /\ exits.scripts # <<>>
                /\ \A k \in 1..Len(exits.scripts) :
                      exits.scripts[k] # 0 <=> k = Len(exits.scripts)
          /\ (pc = "classify" \/ \E e \in 1..Len(events) : events[e].category \in Categories)
             => AllConsolidated
          /\ exits.pipeline # <<>> <=> pc \in {"pipeline_exit", "pipeline_done"}
          /\ pc = "pipeline_exit" => exits.pipeline = <<exits.scripts[Len(exits.scripts)]>>
          /\ pc = "pipeline_done" => exits.pipeline = <<0>>)
    /\ [][pc = "aborted"
          => /\ pc' = "pipeline_exit"
             /\ exits'.scripts = exits.scripts
             /\ <<schema, raw_events, events>>' = <<schema, raw_events, events>>]_vars

\* dedupe_agent has ended with code 1 after ingest_agent ended with 0: the
\* pipeline has exited with 1, a record is in the registry and none has been
\* classified.
C26_Witness ==
    /\ pc = "pipeline_exit"
    /\ exits = [scripts |-> <<0, 1>>, pipeline |-> <<1>>]
    /\ Len(events) >= 1
    /\ raw_idx <= Len(raw_rows)
    /\ classify_runs = 0
    /\ \A e \in 1..Len(events) : events[e].category \notin Categories

\* C28: the events table as a CREATE TABLE of the repository made it has
\* every column the SELECT of find_matching_event and the INSERT of
\* dedupe_raw_events name.
C28_DedupeColumnsExist ==
    schema.columns \in {DbInitColumns, DedupeColumns}
    => (SelectColumns \cup InsertColumns) \subseteq schema.columns

====
